---- MODULE Spec2Model ----
(***************************************************************************)
(* Chain-state engine of ethereum-mive/mive: the header chain              *)
(* (core/headerchain: WriteHeaders, Reorg, writeHeadersAndSetHead,         *)
(* InsertHeaderChain, ValidateHeaderChain, GetAncestor), the block chain   *)
(* wrapper (SetHead, loadLastState, head pointers) and the genesis         *)
(* bootstrap (SetupGenesisBlockWithOverride, Genesis.Commit).              *)
(*                                                                         *)
(* A header is identified by its stored Hash field; the upstream chain     *)
(* fixes, for every hash, the parent hash and the number, so the universe  *)
(* of headers is a tree of hashes.                                         *)
(***************************************************************************)
EXTENDS Integers, Sequences, FiniteSets, TLC

\* ------------------------------------------------------------------ bounds

\* Highest block number of the upstream chain the model knows.
MaxNumber == 2
\* Longest header batch handed to WriteHeaders / InsertHeaderChain.
MaxBatch == 2
\* Largest non-canonical budget a caller of GetAncestor supplies.
MaxBudget == 2
\* Longest header sequence handed to ValidateHeaderChain.
MaxChain == 3

\* --------------------------------------------------------------- universe

\* common.Hash{}: the empty hash.
EmptyHash == 0
\* A nil *Header.
NoHeader == 0
\* The value of Number-1 for Number = 0 (uint64 wrap-around): a number no
\* header of the universe carries.
WrappedNumber == 0 - 1

\* params.MainnetChainConfig.Mive.GenesisBlock (new(big.Int)).
GenesisNumber == 0

\* The main-chain numbers after which the upstream chain forked (an upstream
\* reorg): once after the genesis block and once after block 1.
ForkPoints == {0, 1}

\* Branch 0 is the upstream main chain; branch b >= 1 forks off the main chain
\* after number b-1, so it has headers b..MaxNumber.
Branches == {p + 1 : p \in ForkPoints}

Hash(br, n) == br * (MaxNumber + 1) + n + 1

Headers == {Hash(0, n) : n \in GenesisNumber..MaxNumber}
             \cup UNION {{Hash(br, n) : n \in br..MaxNumber} : br \in Branches}

\* The upstream main-chain header at number MaxNumber + 1: the one header above
\* the universe, which only the readers racing with reorgs see inserted.
TopHash == Hash(MaxNumber + 1, 0)

\* Header.Number
Number(h) == IF h = TopHash THEN MaxNumber + 1 ELSE (h - 1) % (MaxNumber + 1)
Branch(h) == IF h = TopHash THEN 0 ELSE (h - 1) \div (MaxNumber + 1)

\* Header.ParentHash
ParentHash(h) ==
  IF h = TopHash THEN Hash(0, MaxNumber)
  ELSE IF Number(h) = GenesisNumber THEN EmptyHash
  ELSE IF Branch(h) >= 1 /\ Number(h) = Branch(h) THEN Hash(0, Number(h) - 1)
  ELSE h - 1

GenesisHash == Hash(0, GenesisNumber)

Numbers == 0..(MaxNumber + 1)

\* uint64 subtraction by one.
PrevNumber(n) == IF n = 0 THEN WrappedNumber ELSE n - 1

\* ---------------------------------------------------------------- state

VARIABLES
  dbHeaders,         \* chainDb: hashes h with a header stored under (Number(h), h)
  dbCanon,           \* chainDb: number -> canonical hash (EmptyHash: no entry)
  dbHeadHeader,      \* chainDb: head-header hash marker
  dbHeadBlock,       \* chainDb: head-block hash marker
  dbHeadFast,        \* chainDb: head-fast-block hash marker
  dbFinalized,       \* chainDb: finalized-block hash marker
  dbConfig,          \* chainDb: genesis hash -> stored chain config
  dbState,           \* trie database: hashes of the headers whose state root is there
  dbRecoverable,     \* trie database: headers whose state root its history can restore
  dbPivot,           \* chainDb: the last snap-sync pivot number ({}: no marker)
  currentHeader,     \* hc.currentHeader
  headerCache,       \* hc.headerCache: hashes whose header is cached
  numberCache,       \* hc.numberCache: hashes whose number is cached
  procInterrupt,     \* bc.procInterrupt
  currentBlock,      \* bc.currentBlock
  currentSnapBlock,  \* bc.currentSnapBlock
  currentFinalBlock, \* bc.currentFinalBlock
  currentSafeBlock,  \* bc.currentSafeBlock
  genesisHeader,     \* bc.genesisHeader, hc.genesisHeader
  running,           \* a BlockChain has been constructed and the process lives
  chainmu,           \* bc.chainmu is held
  chainmuClosed,     \* bc.chainmu has been closed
  blockCache,        \* bc.blockCache: hashes whose upstream block is cached
  pending,           \* the batch and verifier results of the next validation
  last               \* the last call: its arguments and what it returned

vars == <<dbHeaders, dbCanon, dbHeadHeader, dbHeadBlock, dbHeadFast, dbFinalized,
          dbConfig, dbState, dbRecoverable, dbPivot, currentHeader, headerCache,
          numberCache,
          procInterrupt, currentBlock, currentSnapBlock, currentFinalBlock,
          currentSafeBlock, genesisHeader, running, chainmu, chainmuClosed,
          blockCache, pending,
          last>>

\* The database and the chain objects as one value, threaded through the
\* operators below.
BC == [hdr |-> dbHeaders, canon |-> dbCanon, headHdr |-> dbHeadHeader,
       headBlock |-> dbHeadBlock, headFast |-> dbHeadFast, final |-> dbFinalized,
       cfg |-> dbConfig, state |-> dbState, recov |-> dbRecoverable,
       pivot |-> dbPivot,
       cur |-> currentHeader, hcache |-> headerCache, ncache |-> numberCache,
       intr |-> procInterrupt, curBlock |-> currentBlock,
       curSnap |-> currentSnapBlock, curFinal |-> currentFinalBlock,
       curSafe |-> currentSafeBlock, genesis |-> genesisHeader,
       running |-> running, chainmu |-> chainmu, closed |-> chainmuClosed,
       bcache |-> blockCache]

\* -------------------------------------------------------------- readers

\* rawdb.ReadCanonicalHash
ReadCanonicalHash(s, n) == IF n \in DOMAIN s.canon THEN s.canon[n] ELSE EmptyHash

\* rawdb.HasHeader / rawdb.ReadHeaderRLP: the key is (number, hash).
DbHasHeader(s, h, n) == h \in s.hdr /\ Number(h) = n

\* lru.Cache.Add. headerCacheLimit (512) and numberCacheLimit (2048) exceed the
\* number of headers of the universe, so no entry is ever evicted.
CacheAdd(c, h) == c \cup {h}

\* HeaderChain.GetHeader: the cache is looked up by hash alone.
GetHeader(s, h, n) ==
  IF h \in s.hcache THEN [header |-> h, s |-> s]
  ELSE IF DbHasHeader(s, h, n)
       THEN [header |-> h, s |-> [s EXCEPT !.hcache = CacheAdd(s.hcache, h)]]
       ELSE [header |-> NoHeader, s |-> s]

\* HeaderChain.HasHeader
HasHeader(s, h, n) == h \in s.ncache \/ h \in s.hcache \/ DbHasHeader(s, h, n)

\* HeaderChain.GetCanonicalHash
GetCanonicalHash(s, n) == ReadCanonicalHash(s, n)

\* HeaderChain.GetBlockNumber: the number cache, then the hash -> number entry
\* that WriteHeader stores with every header.
GetBlockNumber(s, h) ==
  IF h \in s.ncache THEN [found |-> TRUE, number |-> Number(h), s |-> s]
  ELSE IF h \in s.hdr
       THEN [found |-> TRUE, number |-> Number(h),
             s |-> [s EXCEPT !.ncache = CacheAdd(s.ncache, h)]]
       ELSE [found |-> FALSE, number |-> 0, s |-> s]

\* HeaderChain.GetHeaderByHash
GetHeaderByHash(s, h) ==
  LET bn == GetBlockNumber(s, h)
  IN IF ~bn.found THEN [header |-> NoHeader, s |-> bn.s]
     ELSE GetHeader(bn.s, h, bn.number)

\* HeaderChain.GetHeaderByNumber
GetHeaderByNumber(s, n) ==
  LET hash == ReadCanonicalHash(s, n)
  IN IF hash = EmptyHash THEN [header |-> NoHeader, s |-> s]
     ELSE GetHeader(s, hash, n)

\* rawdb.ReadHeadHeader
ReadHeadHeader(s) ==
  IF s.headHdr = EmptyHash \/ s.headHdr \notin s.hdr THEN NoHeader ELSE s.headHdr

\* ------------------------------------------------------- header batches

\* The headers a caller hands in: ordered, parent-linked sequences.
RECURSIVE PathTo(_, _)
PathTo(h, len) ==
  IF len = 1 THEN <<h>>
  ELSE PathTo(ParentHash(h), len - 1) \o <<h>>

Batches == {PathTo(h, len) : h \in Headers, len \in 1..MaxBatch} \cap Seq(Headers)

First(headers) == headers[1]
Last(headers) == headers[Len(headers)]

\* ---------------------------------------------------------- WriteHeaders

\* The loop of WriteHeaders from position i on: r.batch are the headers put
\* into the write batch, r.inserted their count, r.s carries the caches.
RECURSIVE WriteHeadersLoop(_, _, _, _)
WriteHeadersLoop(headers, i, parentKnown, r) ==
  IF i > Len(headers) THEN r
  ELSE LET hash == headers[i]
           number == Number(hash)
           alreadyKnown == parentKnown /\ HasHeader(r.s, hash, number)
           r1 == IF alreadyKnown THEN r
                 ELSE [batch |-> r.batch \cup {hash},
                       inserted |-> r.inserted + 1,
                       s |-> [r.s EXCEPT !.hcache = CacheAdd(r.s.hcache, hash),
                                         !.ncache = CacheAdd(r.s.ncache, hash)]]
       IN WriteHeadersLoop(headers, i + 1, alreadyKnown, r1)

\* HeaderChain.WriteHeaders. stop: StopInsert is called by another goroutine
\* while the loop runs, before procInterrupt is read.
WriteHeaders(s, headers, stop) ==
  IF Len(headers) = 0 THEN [n |-> 0, err |-> "nil", s |-> s]
  ELSE LET p == GetHeader(s, ParentHash(First(headers)), PrevNumber(Number(First(headers))))
       IN IF p.header = NoHeader
          THEN [n |-> 0, err |-> "ErrUnknownAncestor", s |-> p.s]
          ELSE LET r == WriteHeadersLoop(headers, 1, TRUE,
                                         [batch |-> {}, inserted |-> 0, s |-> p.s])
                   s1 == [r.s EXCEPT !.intr = r.s.intr \/ stop]
               IN IF s1.intr
                  THEN [n |-> 0, err |-> "aborted", s |-> s1]
                  ELSE [n |-> r.inserted, err |-> "nil",
                        s |-> [s1 EXCEPT !.hdr = s1.hdr \cup r.batch]]

\* ---------------------------------------------------------------- Reorg

\* A Reorg that leaves the canonical entries above the new head in place.
ReorgDeleteAbove_Keep(s, i) == {}

\* The first loop of Reorg: the numbers above the new head whose canonical
\* entry is deleted (it stops at the first number without an entry).
RECURSIVE ReorgDeleteAbove(_, _)
ReorgDeleteAbove(s, i) ==
  IF ReadCanonicalHash(s, i) = EmptyHash THEN {}
  ELSE {i} \cup ReorgDeleteAbove(s, i + 1)

\* A Reorg that does not walk back to the fork point.
ReorgWalk_NoWalk(s, w, header, headHash, headNumber) == [ok |-> TRUE, w |-> w, s |-> s]

\* The second loop of Reorg: w are the canonical entries written to the batch
\* so far (reads go to the database, which the batch has not reached yet).
RECURSIVE ReorgWalk(_, _, _, _, _)
ReorgWalk(s, w, header, headHash, headNumber) ==
  IF ReadCanonicalHash(s, headNumber) = headHash
  THEN [ok |-> TRUE, w |-> w, s |-> s]
  ELSE LET w1 == [w EXCEPT ![headNumber] = headHash]
       IN IF headNumber = 0
          THEN [ok |-> TRUE, w |-> w1, s |-> s]
          ELSE LET pHash == ParentHash(header)
                   pNum == Number(header) - 1
                   g == GetHeader(s, pHash, pNum)
               IN IF g.header = NoHeader
                  THEN [ok |-> FALSE, w |-> w1, s |-> g.s]
                  ELSE ReorgWalk(g.s, w1, g.header, pHash, pNum)

\* No canonical entry written: the batch holds nothing for these numbers.
NoWrites == [n \in Numbers |-> EmptyHash]

\* The third loop of Reorg: every header of the batch becomes canonical.
ReorgExtend(w, headers) ==
  [n \in Numbers |->
     IF \E i \in 1..Len(headers) : Number(headers[i]) = n
     THEN headers[CHOOSE i \in 1..Len(headers) :
                    /\ Number(headers[i]) = n
                    /\ \A j \in 1..Len(headers) : Number(headers[j]) = n => j <= i]
     ELSE w[n]]

\* batch.Write of Reorg: deletions and writes reach the database together.
ReorgCommit(s, del, w, headers) ==
  [s EXCEPT !.canon = [n \in Numbers |->
                         IF w[n] # EmptyHash THEN w[n]
                         ELSE IF n \in del THEN EmptyHash
                         ELSE s.canon[n]],
            !.headHdr = Last(headers)]

\* A Reorg that writes each canonical entry straight to the database: what the
\* walk wrote before it failed stays written.
Reorg_Unbatched(s, headers, fail) ==
  LET first == First(headers)
      fork == ParentHash(first) # s.cur
      del == IF fork THEN ReorgDeleteAbove(s, Number(Last(headers)) + 1) ELSE {}
      walk == IF fork THEN ReorgWalk(s, NoWrites, first, first, Number(first))
              ELSE [ok |-> TRUE, w |-> NoWrites, s |-> s]
      done == ReorgCommit(walk.s, del, ReorgExtend(walk.w, headers), headers)
  IN IF ~walk.ok
     THEN [err |-> "missing parent",
           s |-> [walk.s EXCEPT !.canon = ReorgCommit(walk.s, del, walk.w, headers).canon]]
     ELSE IF fail THEN [err |-> "write failed", s |-> done]
     ELSE [err |-> "nil", s |-> [done EXCEPT !.cur = Last(headers)]]

\* HeaderChain.Reorg. fail: batch.Write returns an error.
Reorg(s, headers, fail) ==
  IF Len(headers) = 0 THEN [err |-> "nil", s |-> s]
  ELSE LET first == First(headers)
           last_ == Last(headers)
           fork == ParentHash(first) # s.cur
           del == IF fork THEN ReorgDeleteAbove(s, Number(last_) + 1) ELSE {}
           walk == IF fork THEN ReorgWalk(s, NoWrites, first, first, Number(first))
                   ELSE [ok |-> TRUE, w |-> NoWrites, s |-> s]
       IN IF ~walk.ok THEN [err |-> "missing parent", s |-> walk.s]
          ELSE IF fail THEN [err |-> "write failed", s |-> walk.s]
          ELSE [err |-> "nil",
                s |-> [ReorgCommit(walk.s, del, ReorgExtend(walk.w, headers), headers)
                         EXCEPT !.cur = last_]]

\* ----------------------------------------------- writeHeadersAndSetHead

NonStatTy == "NonStatTy"
CanonStatTy == "CanonStatTy"

\* A skip test that never skips: every insertion runs Reorg.
AlreadyCanonical_Never(s, lastHeader) == FALSE

\* The special case of writeHeadersAndSetHead: the last header is already on
\* the canonical chain, at or below the current header.
AlreadyCanonical(s, lastHeader) ==
  /\ GetCanonicalHash(s, Number(lastHeader)) = lastHeader
  /\ Number(lastHeader) <= Number(s.cur)

\* HeaderChain.writeHeadersAndSetHead (headers is not empty).
writeHeadersAndSetHead(s, headers, stop, fail) ==
  LET wr == WriteHeaders(s, headers, stop)
  IN IF wr.err # "nil"
     THEN [status |-> NonStatTy, imported |-> 0, ignored |-> 0, err |-> wr.err, s |-> wr.s]
     ELSE LET lastHeader == Last(headers)
              result == [status |-> NonStatTy, imported |-> wr.n,
                         ignored |-> Len(headers) - wr.n, err |-> "nil", s |-> wr.s]
          IN IF AlreadyCanonical(wr.s, lastHeader)
             THEN result
             ELSE LET ro == Reorg(wr.s, headers, fail)
                  IN IF ro.err # "nil"
                     THEN [status |-> NonStatTy, imported |-> 0, ignored |-> 0,
                           err |-> ro.err, s |-> ro.s]
                     ELSE [result EXCEPT !.status = CanonStatTy, !.s = ro.s]

\* HeaderChain.InsertHeaderChain (chain is not empty).
InsertHeaderChain(s, chain, stop, fail) ==
  IF s.intr
  THEN [status |-> NonStatTy, imported |-> 0, ignored |-> 0, err |-> "aborted", s |-> s]
  ELSE writeHeadersAndSetHead(s, chain, stop, fail)

\* -------------------------------------------------- ValidateHeaderChain

\* core.BadHashes: the banned hashes (here the first header of the side chain
\* that forks off the genesis block).
BadHashes == {Hash(1, 1)}

\* The header sequences a caller may hand to ValidateHeaderChain: any order,
\* any numbers.
Chains == UNION {[1..n -> Headers] : n \in 0..MaxChain}

\* A sanity loop that does not compare the numbers.
RECURSIVE ValidateSanity_NoNumbers(_, _)
ValidateSanity_NoNumbers(chain, k) ==
  IF k > Len(chain) THEN [err |-> "nil", index |-> 0, items |-> <<>>]
  ELSE IF ParentHash(chain[k]) \in BadHashes
       THEN [err |-> "ErrBannedHash", index |-> k - 2, items |-> <<>>]
  ELSE IF k = Len(chain) /\ chain[k] \in BadHashes
       THEN [err |-> "ErrBannedHash", index |-> k - 1, items |-> <<>>]
  ELSE ValidateSanity_NoNumbers(chain, k + 1)

\* The first loop of ValidateHeaderChain at position k of the sequence (index
\* i = k - 1 in the code). index: the returned int; items: the two item indices
\* the text of the non-contiguity error names.
RECURSIVE ValidateSanity(_, _)
ValidateSanity(chain, k) ==
  IF k > Len(chain) THEN [err |-> "nil", index |-> 0, items |-> <<>>]
  ELSE IF Number(chain[k]) # Number(chain[k - 1]) + 1
       THEN [err |-> "non contiguous insert", index |-> 0, items |-> <<k - 2, k - 1>>]
  ELSE IF ParentHash(chain[k]) \in BadHashes
       THEN [err |-> "ErrBannedHash", index |-> k - 2, items |-> <<>>]
  ELSE IF k = Len(chain) /\ chain[k] \in BadHashes
       THEN [err |-> "ErrBannedHash", index |-> k - 1, items |-> <<>>]
  ELSE ValidateSanity(chain, k + 1)

\* The second loop of ValidateHeaderChain: the results of engine.VerifyHeaders
\* arrive in order. failAt: the position whose result is an error (0: none);
\* stopAt: the position before whose check StopInsert lands (0: it does not).
RECURSIVE VerifyResults(_, _, _, _, _)
VerifyResults(s, chain, k, failAt, stopAt) ==
  IF k > Len(chain) THEN [err |-> "nil", index |-> 0, items |-> <<>>, s |-> s]
  ELSE IF s.intr \/ stopAt = k
       THEN [err |-> "aborted", index |-> 0, items |-> <<>>,
             s |-> [s EXCEPT !.intr = TRUE]]
  ELSE IF failAt = k
       THEN [err |-> "invalid header", index |-> k - 1, items |-> <<>>, s |-> s]
  ELSE VerifyResults(s, chain, k + 1, failAt, stopAt)

\* A validation that leaves the headers it was handed in the header cache.
ValidateHeaderChain_Caching(s, chain, failAt, stopAt) ==
  LET sanity == ValidateSanity(chain, 2)
      v == VerifyResults(s, chain, 1, failAt, stopAt)
      keep == [v.s EXCEPT !.hcache = @ \cup {chain[i] : i \in 1..Len(chain)}]
  IN IF sanity.err # "nil"
     THEN [err |-> sanity.err, index |-> sanity.index, items |-> sanity.items,
           s |-> s, verified |-> FALSE, closes |-> 0]
     ELSE [err |-> v.err, index |-> v.index, items |-> v.items, s |-> keep,
           verified |-> TRUE, closes |-> 1]

\* HeaderChain.ValidateHeaderChain. verified: engine.VerifyHeaders was called;
\* closes: how often the abort channel it returned was closed (the deferred
\* close runs once on every return after the call).
ValidateHeaderChain(s, chain, failAt, stopAt) ==
  LET sanity == ValidateSanity(chain, 2)
      v == VerifyResults(s, chain, 1, failAt, stopAt)
  IN IF sanity.err # "nil"
     THEN [err |-> sanity.err, index |-> sanity.index, items |-> sanity.items,
           s |-> s, verified |-> FALSE, closes |-> 0]
     ELSE [err |-> v.err, index |-> v.index, items |-> v.items, s |-> v.s,
           verified |-> TRUE, closes |-> 1]

\* ---------------------------------------------------------- GetAncestor

ZeroAncestor(s, budget) == [hash |-> EmptyHash, number |-> 0, budget |-> budget, s |-> s]

\* A walk that never charges the budget.
RECURSIVE GetAncestorLoop_Free(_, _, _, _, _)
GetAncestorLoop_Free(s, hash, number, ancestor, budget) ==
  IF ancestor = 0 THEN [hash |-> hash, number |-> number, budget |-> budget, s |-> s]
  ELSE IF ReadCanonicalHash(s, number) = hash
       THEN [hash |-> ReadCanonicalHash(s, number - ancestor),
             number |-> number - ancestor, budget |-> budget, s |-> s]
       ELSE LET g == GetHeader(s, hash, number)
            IN IF g.header = NoHeader THEN ZeroAncestor(g.s, budget)
               ELSE GetAncestorLoop_Free(g.s, ParentHash(g.header), number - 1,
                                         ancestor - 1, budget)

\* The loop of GetAncestor. Both reads of the canonical hash at `number` see
\* the same database here (no writer runs in between).
RECURSIVE GetAncestorLoop(_, _, _, _, _)
GetAncestorLoop(s, hash, number, ancestor, budget) ==
  IF ancestor = 0 THEN [hash |-> hash, number |-> number, budget |-> budget, s |-> s]
  ELSE IF ReadCanonicalHash(s, number) = hash
       THEN [hash |-> ReadCanonicalHash(s, number - ancestor),
             number |-> number - ancestor, budget |-> budget, s |-> s]
       ELSE IF budget = 0 THEN ZeroAncestor(s, budget)
       ELSE LET g == GetHeader(s, hash, number)
            IN IF g.header = NoHeader THEN ZeroAncestor(g.s, budget - 1)
               ELSE GetAncestorLoop(g.s, ParentHash(g.header), number - 1,
                                    ancestor - 1, budget - 1)

\* GetAncestor without the shortcut for ancestor = 1.
GetAncestor_NoShortcut(s, hash, number, ancestor, budget) ==
  IF ancestor > number THEN ZeroAncestor(s, budget)
  ELSE GetAncestorLoop(s, hash, number, ancestor, budget)

\* HeaderChain.GetAncestor; budget is *maxNonCanonical, returned as left behind.
GetAncestor(s, hash, number, ancestor, budget) ==
  IF ancestor > number THEN ZeroAncestor(s, budget)
  ELSE IF ancestor = 1
       THEN LET g == GetHeader(s, hash, number)
            IN IF g.header # NoHeader
               THEN [hash |-> ParentHash(g.header), number |-> number - 1,
                     budget |-> budget, s |-> g.s]
               ELSE ZeroAncestor(g.s, budget)
       ELSE GetAncestorLoop(s, hash, number, ancestor, budget)

\* ---------------------------------------------------------------- actions

\* ------------------------------------------------------ genesis bootstrap

\* The chain configurations a caller supplies; MainnetConfig is
\* params.MainnetChainConfig. NoConfig: a nil *ChainConfig.
MainnetConfig == "mainnet"
Configs == {MainnetConfig, "custom"}
NoConfig == "none"

\* The genesis numbers a configuration may name (Mive.GenesisBlock).
GenesisNumbers == {GenesisNumber, GenesisNumber + 1}

\* DefaultGenesisBlock. valid: Config.CheckConfigForkOrder() passes.
DefaultGenesisBlock ==
  [nil |-> FALSE, config |-> MainnetConfig, num |-> GenesisNumber, valid |-> TRUE]

\* The *Genesis arguments of NewBlockChain: nil, one without Config, or one
\* with a configuration and the genesis number it names.
GenesisArgs ==
  {[DefaultGenesisBlock EXCEPT !.nil = TRUE]}
    \cup [nil : {FALSE}, config : Configs \cup {NoConfig}, num : GenesisNumbers,
          valid : BOOLEAN]

\* A commit that leaves the head-header marker alone.
Commit_NoHeadHeader(s, block, config) ==
  [s EXCEPT !.state = @ \cup {block},
            !.hdr = @ \cup {block},
            !.canon[Number(block)] = block,
            !.headBlock = block,
            !.headFast = block,
            !.cfg[block] = config]

\* Genesis.Commit with a valid configuration: Alloc.flush commits the state,
\* then the header, the canonical hash, the three head markers and the chain
\* configuration are written.
Commit(s, block, config) ==
  [s EXCEPT !.state = @ \cup {block},
            !.hdr = @ \cup {block},
            !.canon[Number(block)] = block,
            !.headBlock = block,
            !.headFast = block,
            !.headHdr = block,
            !.cfg[block] = config]

\* `header, err := genesis.Commit(...); return genesis.Config, header.Hash, err`:
\* Commit returns a nil header when CheckConfigForkOrder fails, and header.Hash
\* then dereferences it.
CommitAndReturn(s, g, block) ==
  IF ~g.valid THEN [err |-> "panic", hash |-> EmptyHash, s |-> s]
  ELSE [err |-> "nil", hash |-> block, s |-> Commit(s, block, g.config)]

\* The headers whose state root is types.EmptyRootHash (the allocation of a
\* genesis at such an upstream block is empty): the first header of the side
\* chain that forks off the genesis block.
EmptyRootHeaders == {Hash(1, GenesisNumber + 1)}

\* A bootstrap that commits the genesis on every start.
StateMissing_Always(s, stored) == TRUE

\* The test `header.Root != types.EmptyRootHash && !triedb.Initialized(header.Root)`
\* on the stored genesis header.
StateMissing(s, stored) == stored \notin EmptyRootHeaders /\ stored \notin s.state

\* A bootstrap that accepts whatever genesis the store holds.
GenesisMismatch_Never(stored, genesisHash) == FALSE

\* The test `genesisHash != stored` of SetupGenesisBlockWithOverride.
GenesisMismatch(stored, genesisHash) == genesisHash # stored

\* The time of a header. Upstream timestamps grow with the numbers and the
\* upstream block 0 carries time 0.
Time(h) == Number(h)

\* What storedcfg.CheckCompatible returns: nil, or a *ConfigCompatError with
\* its rewind targets (a block fork names a block, a time fork a time; a fork
\* at the very start names neither).
NoCompatError == [nil |-> TRUE, RewindToBlock |-> 0, RewindToTime |-> 0]
CompatErrors ==
  {NoCompatError}
    \cup {[nil |-> FALSE, RewindToBlock |-> r[1], RewindToTime |-> r[2]] :
            r \in {<<0, 0>>, <<1, 0>>, <<0, 1>>}}

\* A bootstrap that returns every compatibility error once the head is past
\* number zero.
CompatFatal_HeightOnly(head, compatErr) == ~compatErr.nil /\ Number(head) # 0

\* `compatErr != nil && ((head.Number.Uint64() != 0 && compatErr.RewindToBlock != 0)
\*  || (head.Time != 0 && compatErr.RewindToTime != 0))`
CompatFatal(head, compatErr) ==
  /\ ~compatErr.nil
  /\ \/ Number(head) # 0 /\ compatErr.RewindToBlock # 0
     \/ Time(head) # 0 /\ compatErr.RewindToTime # 0

\* SetupGenesisBlockWithOverride. upstream: the hash of the block that
\* ethClient.BlockByNumber returns for the genesis number (clientOK: it returns
\* one); compatErr: what storedcfg.CheckCompatible returns when the two
\* configurations differ (nil when they are the same).
SetupGenesisBlockWithOverride(s, genesis, upstream, clientOK, compatErr) ==
  IF ~genesis.nil /\ genesis.config = NoConfig
  THEN [err |-> "errGenesisNoConfig", hash |-> EmptyHash, s |-> s]
  ELSE
    LET g == IF genesis.nil THEN DefaultGenesisBlock ELSE genesis
        stored == ReadCanonicalHash(s, g.num)
        head == ReadHeadHeader(s)
    IN IF ~clientOK THEN [err |-> "client", hash |-> EmptyHash, s |-> s]
       ELSE IF stored = EmptyHash THEN CommitAndReturn(s, g, upstream)
       ELSE IF GenesisMismatch(stored, upstream)
            THEN [err |-> "GenesisMismatchError", hash |-> upstream, s |-> s]
       ELSE IF ~DbHasHeader(s, stored, g.num)
            THEN [err |-> "panic", hash |-> EmptyHash, s |-> s]
       ELSE IF StateMissing(s, stored) THEN CommitAndReturn(s, g, upstream)
       ELSE IF ~g.valid THEN [err |-> "fork order", hash |-> EmptyHash, s |-> s]
       ELSE IF s.cfg[stored] = NoConfig
            THEN [err |-> "nil", hash |-> stored,
                  s |-> [s EXCEPT !.cfg[stored] = g.config]]
       ELSE IF head = NoHeader
            THEN [err |-> "missing head header", hash |-> stored, s |-> s]
       ELSE IF s.cfg[stored] # g.config /\ CompatFatal(head, compatErr)
            THEN [err |-> "ConfigCompatError", hash |-> stored, s |-> s]
       ELSE [err |-> "nil", hash |-> stored, s |-> [s EXCEPT !.cfg[stored] = g.config]]

\* NewHeaderChain over the store, for the genesis number of the configuration.
NewHeaderChain(s, genesisNum) ==
  LET s0 == [s EXCEPT !.hcache = {}, !.ncache = {}]
      g == GetHeaderByNumber(s0, genesisNum)
      c == IF g.s.headBlock # EmptyHash THEN GetHeaderByHash(g.s, g.s.headBlock)
           ELSE [header |-> NoHeader, s |-> g.s]
  IN IF g.header = NoHeader THEN [err |-> "ErrNoGenesis", s |-> s]
     ELSE [err |-> "nil",
           s |-> [c.s EXCEPT !.genesis = g.header,
                             !.cur = IF c.header # NoHeader THEN c.header
                                     ELSE g.header]]

\* NewBlockChain: a ConfigCompatError does not stop the construction; the four
\* head pointers are stored as nil and nothing loads them from the store.
NewBlockChain(s, genesis, upstream, clientOK, compatErr) ==
  LET sg == SetupGenesisBlockWithOverride(s, genesis, upstream, clientOK, compatErr)
      num == IF genesis.nil THEN DefaultGenesisBlock.num ELSE genesis.num
      hc == NewHeaderChain(sg.s, num)
  IN IF sg.err \notin {"nil", "ConfigCompatError"} THEN [err |-> sg.err, s |-> sg.s]
     ELSE IF hc.err # "nil" THEN [err |-> hc.err, s |-> sg.s]
     ELSE [err |-> "nil",
           s |-> [hc.s EXCEPT !.curBlock = NoHeader, !.curSnap = NoHeader,
                              !.curFinal = NoHeader, !.curSafe = NoHeader,
                              !.intr = FALSE, !.chainmu = FALSE, !.closed = FALSE,
                              !.bcache = {}, !.running = TRUE]]

\* An empty store and no process.
EmptyChain ==
  [hdr |-> {}, canon |-> [n \in Numbers |-> EmptyHash], headHdr |-> EmptyHash,
   headBlock |-> EmptyHash, headFast |-> EmptyHash, final |-> EmptyHash,
   cfg |-> [h \in Headers |-> NoConfig], state |-> {}, recov |-> {}, pivot |-> {},
   cur |-> NoHeader, hcache |-> {}, ncache |-> {}, intr |-> FALSE,
   curBlock |-> NoHeader, curSnap |-> NoHeader, curFinal |-> NoHeader,
   curSafe |-> NoHeader, genesis |-> NoHeader, running |-> FALSE,
   chainmu |-> FALSE, closed |-> FALSE, bcache |-> {}]

\* The process ends: the chain objects are gone, the store stays.
Exited(s) ==
  [s EXCEPT !.cur = NoHeader, !.hcache = {}, !.ncache = {}, !.intr = FALSE,
            !.curBlock = NoHeader, !.curSnap = NoHeader, !.curFinal = NoHeader,
            !.curSafe = NoHeader, !.genesis = NoHeader, !.running = FALSE,
            !.chainmu = FALSE, !.closed = FALSE, !.bcache = {}]

\* ---------------------------------------------------------------- SetHead

\* BlockChain.HasState for the state root of header h: the trie of the root
\* can be opened (the empty root always can).
HasState(s, h) == h \in s.state \/ h \in EmptyRootHeaders

\* BlockChain.stateRecoverable: false under the hash scheme (no root is in
\* recov then); under the path scheme what triedb.Recoverable answers.
stateRecoverable(s, h) == h \in s.recov

\* triedb.Recover for the state root of header h: the state is materialized.
Recover(s, h) == [s EXCEPT !.state = @ \cup {h}, !.recov = @ \ {h}]

\* body applied to the value of v, which is computed once.
With(v, body(_)) == CHOOSE r \in {body(x) : x \in {v}} : TRUE

\* A rewind that never runs the state recovery.
RewindTo_NoRecover(s, newHeadBlock) == [header |-> newHeadBlock, s |-> s]

\* The loop's exit with no root threshold (beyondRoot is true from the
\* start): a candidate whose state is missing but recoverable is recovered.
RewindTo(s, newHeadBlock) ==
  IF ~HasState(s, newHeadBlock) /\ stateRecoverable(s, newHeadBlock)
  THEN [header |-> newHeadBlock, s |-> Recover(s, newHeadBlock)]
  ELSE [header |-> newHeadBlock, s |-> s]

\* The inner loop of updateFn: walk to the parent while the state is neither
\* there nor recoverable; a missing parent, or a candidate at or below the
\* pivot, aims at the genesis header.
RECURSIVE FindStateful(_, _)
FindStateful(s, newHeadBlock) ==
  IF ~HasState(s, newHeadBlock) /\ ~stateRecoverable(s, newHeadBlock)
  THEN IF s.pivot = {} \/ \A pivot \in s.pivot : Number(newHeadBlock) > pivot
       THEN With(GetHeader(s, ParentHash(newHeadBlock), PrevNumber(Number(newHeadBlock))),
                 LAMBDA p : IF p.header # NoHeader THEN FindStateful(p.s, p.header)
                            ELSE RewindTo(p.s, s.genesis))
       ELSE RewindTo(s, s.genesis)
  ELSE RewindTo(s, newHeadBlock)

\* The first branch of updateFn: the head block is rewound to the nearest
\* header with state at or below header.
updateHeadBlock(s, header) ==
  IF s.curBlock # NoHeader /\ Number(header) <= Number(s.curBlock)
  THEN With(GetHeader(s, header, Number(header)), LAMBDA g :
       With(IF g.header = NoHeader THEN [header |-> s.genesis, s |-> g.s]
            ELSE FindStateful(g.s, g.header), LAMBDA f :
         [f.s EXCEPT !.headBlock = f.header, !.curBlock = f.header]))
  ELSE s

\* The second branch of updateFn: the snap block is rewound to header.
updateSnapBlock(s, header) ==
  IF s.curSnap # NoHeader /\ Number(header) < Number(s.curSnap)
  THEN With(GetHeader(s, header, Number(header)), LAMBDA g :
       With(IF g.header = NoHeader THEN s.genesis ELSE g.header, LAMBDA n :
         [g.s EXCEPT !.headFast = n, !.curSnap = n]))
  ELSE s

\* updateFn of setHeadBeyondRoot, called by the header chain with the header
\* it rewinds to. panic: bc.CurrentBlock() is nil where headHeader.NumberU64()
\* is taken. The ancient store is empty (frozen = 0), so wipe is false.
updateFn(s, header) ==
  With(updateHeadBlock(s, header), LAMBDA s1 :
  With(updateSnapBlock(s1, header), LAMBDA s2 :
    [panic |-> s2.curBlock = NoHeader, s |-> s2]))

\* The numbers above num at which the store holds a header, without a gap.
RECURSIVE NumbersAbove(_, _)
NumbersAbove(s, n) ==
  IF n \in Numbers /\ \E h \in s.hdr : Number(h) = n
  THEN {n} \cup NumbersAbove(s, n + 1)
  ELSE {}

\* HeaderChain.SetHead(head, updateFn, delFn): walks back from the current
\* header while its number is above head. Each step tells updateFn the parent,
\* moves the head-header marker and the current header to it and schedules the
\* headers and canonical entries of the discarded numbers for deletion (on the
\* first step also those above); the deletions are flushed after the walk and
\* the caches are purged. nums: the numbers scheduled so far.
RECURSIVE hcSetHead(_, _, _, _)
hcSetHead(s, head, origin, nums) ==
  IF s.cur = NoHeader \/ Number(s.cur) <= head
  THEN [panic |-> FALSE,
        s |-> [s EXCEPT !.hdr = {h \in @ : Number(h) \notin nums},
                        !.canon = [n \in Numbers |-> IF n \in nums THEN EmptyHash ELSE @[n]],
                        !.hcache = {}, !.ncache = {}]]
  ELSE With(GetHeader(s, ParentHash(s.cur), PrevNumber(Number(s.cur))), LAMBDA p :
       With(IF p.header = NoHeader THEN s.genesis ELSE p.header, LAMBDA parent :
       With(updateFn(p.s, parent), LAMBDA u :
       With(IF origin THEN NumbersAbove(s, Number(s.cur) + 1) ELSE {}, LAMBDA above :
         IF u.panic THEN [panic |-> TRUE, s |-> s]
         ELSE With([u.s EXCEPT !.headHdr = parent, !.cur = parent], LAMBDA s1 :
                hcSetHead(s1, head, FALSE, nums \cup above \cup {Number(s.cur)}))))))

\* BlockChain.SetSafe
SetSafe(s, header) == [s EXCEPT !.curSafe = header]

\* BlockChain.SetFinalized: a nil header is stored as the empty hash.
SetFinalized(s, header) == [s EXCEPT !.curFinal = header, !.final = header]

\* BlockChain.GetBlock: a cached block is returned; otherwise the block comes
\* from ethClient.BlockByHash (clientOK: it answers) and is cached.
GetBlock(s, h, clientOK) ==
  IF h \in s.bcache THEN [block |-> h, s |-> s]
  ELSE IF clientOK THEN [block |-> h, s |-> [s EXCEPT !.bcache = @ \cup {h}]]
  ELSE [block |-> NoHeader, s |-> s]

\* BlockChain.GetBlockByHash
GetBlockByHash(s, h, clientOK) ==
  With(GetBlockNumber(s, h), LAMBDA bn :
    IF ~bn.found THEN [block |-> NoHeader, s |-> bn.s]
    ELSE GetBlock(bn.s, h, clientOK))

\* The header the marker hash names, or def when the marker is empty or names
\* no header (the three `if head := rawdb.Read...Hash` blocks of loadLastState).
MarkedHeader(s, hash, def) ==
  IF hash = EmptyHash THEN [header |-> def, s |-> s]
  ELSE With(GetHeaderByHash(s, hash), LAMBDA g :
         [header |-> IF g.header # NoHeader THEN g.header ELSE def, s |-> g.s])

\* BlockChain.loadLastState, called with chainmu held. A missing head block
\* makes it call Reset, whose SetHead waits for chainmu for ever ("blocked").
loadLastState(s, clientOK) ==
  IF s.headBlock = EmptyHash THEN [err |-> "blocked", s |-> s]
  ELSE
    With(GetBlockByHash(s, s.headBlock, clientOK), LAMBDA headBlock :
    With(GetHeaderByHash(headBlock.s, s.headBlock), LAMBDA headHeader :
    With(MarkedHeader(headHeader.s, s.headHdr, headHeader.header), LAMBDA hh :
    With(MarkedHeader(hh.s, s.headFast, headHeader.header), LAMBDA hf :
    With(MarkedHeader(hf.s, s.final, NoHeader), LAMBDA fin :
      IF headBlock.block = NoHeader THEN [err |-> "blocked", s |-> headBlock.s]
      ELSE IF headHeader.header = NoHeader THEN [err |-> "panic", s |-> s]
      ELSE [err |-> "nil",
            s |-> [fin.s EXCEPT
                     !.curBlock = headHeader.header,
                     !.cur = hh.header,
                     !.curSnap = hf.header,
                     !.curFinal = IF fin.header # NoHeader THEN fin.header ELSE @,
                     !.curSafe = IF fin.header # NoHeader THEN fin.header ELSE @]])))))

\* The tail of setHeadBeyondRoot: the block cache is purged, a safe or
\* finalized pointer above head is cleared and the heads are reloaded.
clearAndLoad(s, head, clientOK) ==
  With([s EXCEPT !.bcache = {}], LAMBDA s0 :
  With(IF s0.curSafe # NoHeader /\ head < Number(s0.curSafe)
       THEN SetSafe(s0, NoHeader) ELSE s0, LAMBDA s1 :
  With(IF s1.curFinal # NoHeader /\ head < Number(s1.curFinal)
       THEN SetFinalized(s1, NoHeader) ELSE s1, LAMBDA s2 :
    loadLastState(s2, clientOK))))

\* A rewind that does not ask the lock.
setHeadBeyondRoot_NoLock(s, head, clientOK) ==
  With(hcSetHead(s, head, TRUE, {}), LAMBDA r :
    IF r.panic THEN [err |-> "panic", s |-> s]
    ELSE clearAndLoad(r.s, head, clientOK))

\* BlockChain.setHeadBeyondRoot(head, 0, common.Hash{}, false), chainmu not
\* held: TryLock fails on a closed lock.
setHeadBeyondRoot(s, head, clientOK) ==
  IF s.closed THEN [err |-> "errChainStopped", s |-> s]
  ELSE With(hcSetHead(s, head, TRUE, {}), LAMBDA r :
         IF r.panic THEN [err |-> "panic", s |-> s]
         ELSE clearAndLoad(r.s, head, clientOK))

\* The statements of SetHead and SetHeadWithTimestamp after setHeadBeyondRoot
\* has answered r: the error is handed on, or the chain-head event is sent.
SetHeadEvent(s, r, eventOK) ==
  IF r.err = "panic" THEN [err |-> "panic", s |-> Exited(s)]
  ELSE IF r.err = "blocked" THEN [err |-> "blocked", s |-> [r.s EXCEPT !.chainmu = TRUE]]
  ELSE IF r.err = "errChainStopped" THEN r
  ELSE With(GetBlock(r.s, r.s.curBlock, eventOK), LAMBDA b :
         IF b.block = NoHeader THEN [err |-> "current block missing", s |-> b.s]
         ELSE [err |-> "nil", s |-> b.s])

\* BlockChain.setHeadBeyondRoot(0, time, common.Hash{}, false): the header chain
\* is rewound by time, and the safe and the finalized pointer are compared
\* with the argument head, which is 0.
setHeadBeyondRootTime(s, time, clientOK) ==
  IF s.closed THEN [err |-> "errChainStopped", s |-> s]
  ELSE With(hcSetHead(s, time, TRUE, {}), LAMBDA r :
         IF r.panic THEN [err |-> "panic", s |-> s]
         ELSE clearAndLoad(r.s, 0, clientOK))

\* BlockChain.SetHead. loadOK, eventOK: ethClient answers the block lookups of
\* loadLastState and of the chain-head event. A panic ends the process; a
\* blocked call keeps chainmu for ever.
SetHead(s, head, loadOK, eventOK) ==
  With(setHeadBeyondRoot(s, head, loadOK), LAMBDA r : SetHeadEvent(s, r, eventOK))

\* BlockChain.SetHeadWithTimestamp: setHeadBeyondRoot(0, timestamp, ...) rewinds
\* while the current header's time is above timestamp (a timestamp of 0 takes
\* the branch of SetHead(0)). Header times grow with the numbers: the time of
\* a header is its number.
SetHeadWithTimestamp(s, timestamp, loadOK, eventOK) ==
  With(setHeadBeyondRootTime(s, timestamp, loadOK), LAMBDA r : SetHeadEvent(s, r, eventOK))

\* BlockChain.insertChain on a non-empty chain: it starts the sender recovery
\* and returns; when insertion is stopped it returns before that.
insertChain(s, chain, setHead) ==
  IF s.intr THEN [n |-> 0, err |-> "nil", s |-> s]
  ELSE [n |-> 0, err |-> "nil", s |-> s]

\* writeHeadBlock, first half: the batch with the two head markers, the
\* canonical hash and the head-block marker, written to the store.
writeHeadBlockBatch(s, header) ==
  [s EXCEPT !.headHdr = header,
            !.headFast = header,
            !.canon[Number(header)] = header,
            !.headBlock = header]

\* writeHeadBlock, second half: the in-memory markers.
writeHeadBlockPointers(s, header) ==
  [s EXCEPT !.cur = header, !.curSnap = header, !.curBlock = header]

\* writeHeadBlock
writeHeadBlock(s, header) ==
  writeHeadBlockPointers(writeHeadBlockBatch(s, header), header)

\* ResetWithGenesisBlock between its SetHead and the in-memory markers: the
\* genesis header written, then the marker batch of writeHeadBlock.
ResetWithGenesisBlockWrite(s, genesis) ==
  writeHeadBlockBatch([s EXCEPT !.hdr = @ \cup {genesis}], genesis)

\* ResetWithGenesisBlock from the in-memory half of writeHeadBlock to its end.
ResetWithGenesisBlockPointers(s, genesis) ==
  [writeHeadBlockPointers(s, genesis) EXCEPT !.genesis = genesis]

\* ResetWithGenesisBlock
ResetWithGenesisBlock(s, genesis, loadOK, eventOK) ==
  With(SetHead(s, Number(s.genesis), loadOK, eventOK), LAMBDA r :
    IF r.err # "nil" THEN r
    ELSE [err |-> "nil",
          s |-> ResetWithGenesisBlockPointers(
                  ResetWithGenesisBlockWrite(r.s, genesis), genesis)])

\* ------------------------------------------------------------------ steps

\* The state as an assignment to the variables.
IsBC(s) ==
  /\ dbHeaders = s.hdr
  /\ dbCanon = s.canon
  /\ dbHeadHeader = s.headHdr
  /\ dbHeadBlock = s.headBlock
  /\ dbHeadFast = s.headFast
  /\ dbFinalized = s.final
  /\ dbConfig = s.cfg
  /\ dbState = s.state
  /\ dbRecoverable = s.recov
  /\ dbPivot = s.pivot
  /\ currentHeader = s.cur
  /\ headerCache = s.hcache
  /\ numberCache = s.ncache
  /\ procInterrupt = s.intr
  /\ currentBlock = s.curBlock
  /\ currentSnapBlock = s.curSnap
  /\ currentFinalBlock = s.curFinal
  /\ currentSafeBlock = s.curSafe
  /\ genesisHeader = s.genesis
  /\ running = s.running
  /\ chainmu = s.chainmu
  /\ chainmuClosed = s.closed
  /\ blockCache = s.bcache

\* The chain a node runs after NewBlockChain(nil genesis) on an empty store,
\* the upstream block 0 being GenesisHash.
InitBC ==
  IsBC(NewBlockChain(EmptyChain, [DefaultGenesisBlock EXCEPT !.nil = TRUE],
                     GenesisHash, TRUE, FALSE).s)

\* last: the call made by the last step, its arguments and what it returned.
\* head: hc.CurrentHeader() when the call started.
NoCall == [op |-> "none", chain |-> <<>>, args |-> <<>>, err |-> "nil", ret |-> <<>>,
           head |-> EmptyHash]

SetBC(s) ==
  /\ dbHeaders' = s.hdr
  /\ dbCanon' = s.canon
  /\ dbHeadHeader' = s.headHdr
  /\ dbHeadBlock' = s.headBlock
  /\ dbHeadFast' = s.headFast
  /\ dbFinalized' = s.final
  /\ dbConfig' = s.cfg
  /\ dbState' = s.state
  /\ dbRecoverable' = s.recov
  /\ dbPivot' = s.pivot
  /\ currentHeader' = s.cur
  /\ headerCache' = s.hcache
  /\ numberCache' = s.ncache
  /\ procInterrupt' = s.intr
  /\ currentBlock' = s.curBlock
  /\ currentSnapBlock' = s.curSnap
  /\ currentFinalBlock' = s.curFinal
  /\ currentSafeBlock' = s.curSafe
  /\ genesisHeader' = s.genesis
  /\ running' = s.running
  /\ chainmu' = s.chainmu
  /\ chainmuClosed' = s.closed
  /\ blockCache' = s.bcache

\* A caller inserts a batch; stop: StopInsert lands during the call;
\* fail: the database rejects the canonical batch of Reorg.
InsertHeaderChainStep(chain, stop, fail) ==
  \E r \in {InsertHeaderChain(BC, chain, stop, fail)} :
     /\ running
     /\ SetBC(r.s)
     /\ UNCHANGED pending
     /\ last' = [op |-> "InsertHeaderChain", chain |-> chain, args |-> <<>>,
                 err |-> r.err, ret |-> <<r.status, r.imported, r.ignored>>,
                 head |-> currentHeader]

\* A caller writes headers without touching the head.
WriteHeadersStep(chain, stop) ==
  \E r \in {WriteHeaders(BC, chain, stop)} :
     /\ running
     /\ SetBC(r.s)
     /\ UNCHANGED pending
     /\ last' = [op |-> "WriteHeaders", chain |-> chain, args |-> <<>>,
                 err |-> r.err, ret |-> <<r.n>>, head |-> currentHeader]

\* A caller hands a batch to Reorg itself (the method is exported).
ReorgStep(chain, fail) ==
  \E r \in {Reorg(BC, chain, fail)} :
     /\ running
     /\ SetBC(r.s)
     /\ UNCHANGED pending
     /\ last' = [op |-> "Reorg", chain |-> chain, args |-> <<>>,
                 err |-> r.err, ret |-> <<>>, head |-> currentHeader]

\* BlockChain.StopInsert
StopInsert ==
  /\ running
  /\ SetBC([BC EXCEPT !.intr = TRUE])
  /\ last' = [NoCall EXCEPT !.op = "StopInsert", !.head = currentHeader]
  /\ UNCHANGED pending

\* A caller walking back from header (hash, Number(hash)) with *maxNonCanonical
\* = budget; ret is the returned hash and number and the budget left behind.
GetAncestorStep(hash, ancestor, budget) ==
  \E r \in {GetAncestor(BC, hash, Number(hash), ancestor, budget)} :
    /\ running
    /\ SetBC(r.s)
    /\ UNCHANGED pending
    /\ last' = [op |-> "GetAncestor", chain |-> <<>>,
                args |-> <<hash, Number(hash), ancestor, budget>>,
                err |-> "nil", ret |-> <<r.hash, r.number, r.budget>>,
                head |-> currentHeader]

\* The node is started on the store. args: the genesis number, the upstream
\* hash at that number, the canonical hash the store held for it, the
\* configuration handed in and the answer of CheckCompatible.
NewBlockChainStep(genesis, upstream, clientOK, compatErr) ==
  /\ ~running
  /\ Number(upstream) = (IF genesis.nil THEN DefaultGenesisBlock.num ELSE genesis.num)
  /\ \E r \in {NewBlockChain(BC, genesis, upstream, clientOK, compatErr)} :
    /\ SetBC(r.s)
    /\ last' = [op |-> "NewBlockChain", chain |-> <<>>,
                args |-> <<Number(upstream), upstream,
                           ReadCanonicalHash(BC, Number(upstream)),
                           IF genesis.nil THEN DefaultGenesisBlock.config
                           ELSE genesis.config, compatErr>>,
                err |-> r.err, ret |-> <<>>, head |-> EmptyHash]
    /\ UNCHANGED pending

\* The bootstrap is run on the store by itself. args: the genesis number, the
\* upstream hash at that number, the canonical hash the store held for it,
\* the configuration handed in and the answer of CheckCompatible; ret: the
\* returned hash.
SetupGenesisStep(genesis, upstream, clientOK, compatErr) ==
  /\ ~running
  /\ Number(upstream) = (IF genesis.nil THEN DefaultGenesisBlock.num ELSE genesis.num)
  /\ \E r \in {SetupGenesisBlockWithOverride(BC, genesis, upstream, clientOK, compatErr)} :
    /\ SetBC(r.s)
    /\ last' = [op |-> "SetupGenesisBlock", chain |-> <<>>,
                args |-> <<Number(upstream), upstream,
                           ReadCanonicalHash(BC, Number(upstream)),
                           IF genesis.nil THEN DefaultGenesisBlock.config
                           ELSE genesis.config, compatErr>>,
                err |-> r.err, ret |-> <<r.hash>>, head |-> EmptyHash]
    /\ UNCHANGED pending

\* A caller rewinds the chain to number head. args: head and loadOK.
SetHeadStep(head, loadOK, eventOK) ==
  \E r \in {SetHead(BC, head, loadOK, eventOK)} :
    /\ running
    /\ ~chainmu
    /\ SetBC(r.s)
    /\ last' = [op |-> "SetHead", chain |-> <<>>, args |-> <<head, loadOK>>,
                err |-> r.err, ret |-> <<>>, head |-> currentHeader]
    /\ UNCHANGED pending

\* The consensus layer marks a stored header (or none) finalized.
SetFinalizedStep(header) ==
  /\ running
  /\ SetBC(SetFinalized(BC, header))
  /\ last' = [NoCall EXCEPT !.op = "SetFinalized", !.args = <<header>>]
  /\ UNCHANGED pending

\* The consensus layer marks a stored header (or none) safe.
SetSafeStep(header) ==
  /\ running
  /\ SetBC(SetSafe(BC, header))
  /\ last' = [NoCall EXCEPT !.op = "SetSafe", !.args = <<header>>]
  /\ UNCHANGED pending

\* The process ends.
Exit ==
  /\ running
  /\ SetBC(Exited(BC))
  /\ last' = [NoCall EXCEPT !.op = "Exit"]
  /\ UNCHANGED pending

\* A caller validates the pending batch. args: the items the error text names;
\* ret: the returned index, whether the engine was consulted and how often the
\* abort channel was closed.
ValidateHeaderChainStep(stopAt) ==
  \E r \in {ValidateHeaderChain(BC, pending.chain, pending.failAt, stopAt)} :
    /\ running
    /\ SetBC(r.s)
    /\ last' = [op |-> "ValidateHeaderChain", chain |-> pending.chain,
                args |-> r.items, err |-> r.err,
                ret |-> <<r.index, r.verified, r.closes>>,
                head |-> currentHeader]
    /\ UNCHANGED pending

\* A head update is between its committed batch and its in-memory markers.
InFlight == last.op \in {"Reorg.Write", "writeHeadBlock.Write"}

\* A call that updates the head has not returned yet.
Busy == InFlight \/ last.op = "Reset.SetHead"

\* InsertHeaderChain up to and including batch.Write of Reorg: the store holds
\* the new canonical chain, the current header is still the old one. A call
\* that does not reach that point runs to its end.
InsertHeaderChainWriteStep(chain) ==
  \E r \in {InsertHeaderChain(BC, chain, FALSE, FALSE)} :
    \E committed \in {r.err = "nil" /\ r.status = CanonStatTy} :
      /\ running
      /\ SetBC(IF committed THEN [r.s EXCEPT !.cur = currentHeader] ELSE r.s)
      /\ UNCHANGED pending
      /\ last' = [op |-> IF committed THEN "Reorg.Write" ELSE "InsertHeaderChain",
                  chain |-> chain, args |-> <<>>, err |-> r.err,
                  ret |-> <<r.status, r.imported, r.ignored>>,
                  head |-> currentHeader]

\* The rest of that call: hc.SetCurrentHeader(last) and the returns.
InsertHeaderChainPointerStep ==
  /\ running
  /\ last.op = "Reorg.Write"
  /\ SetBC([BC EXCEPT !.cur = Last(last.chain)])
  /\ UNCHANGED pending
  /\ last' = [last EXCEPT !.op = "InsertHeaderChain"]

\* Reset, its first statement: SetHead to the genesis number. args: the
\* genesis header handed to ResetWithGenesisBlock.
ResetSetHeadStep(loadOK, eventOK) ==
  \E r \in {SetHead(BC, Number(genesisHeader), loadOK, eventOK)} :
    /\ running
    /\ ~chainmu
    /\ SetBC(r.s)
    /\ UNCHANGED pending
    /\ last' = [op |-> IF r.err = "nil" THEN "Reset.SetHead" ELSE "Reset",
                chain |-> <<>>, args |-> <<genesisHeader>>, err |-> r.err,
                ret |-> <<>>, head |-> currentHeader]

\* Reset from there up to and including batch.Write of writeHeadBlock: TryLock
\* waits for the holder and fails on a closed lock.
ResetWriteStep ==
  /\ running
  /\ last.op = "Reset.SetHead"
  /\ ~chainmu
  /\ UNCHANGED pending
  /\ IF chainmuClosed
     THEN /\ SetBC(BC)
          /\ last' = [last EXCEPT !.op = "Reset", !.err = "errChainStopped"]
     ELSE /\ SetBC([ResetWithGenesisBlockWrite(BC, last.args[1]) EXCEPT !.chainmu = TRUE])
          /\ last' = [last EXCEPT !.op = "writeHeadBlock.Write"]

\* The rest of that call: the in-memory markers, and the deferred Unlock.
ResetPointerStep ==
  /\ running
  /\ last.op = "writeHeadBlock.Write"
  /\ SetBC([ResetWithGenesisBlockPointers(BC, last.args[1]) EXCEPT !.chainmu = FALSE])
  /\ UNCHANGED pending
  /\ last' = [last EXCEPT !.op = "Reset"]

\* A caller rewinds the chain to the time timestamp. args: timestamp, loadOK.
SetHeadWithTimestampStep(timestamp, loadOK, eventOK) ==
  \E r \in {SetHeadWithTimestamp(BC, timestamp, loadOK, eventOK)} :
    /\ running
    /\ ~chainmu
    /\ SetBC(r.s)
    /\ last' = [op |-> "SetHeadWithTimestamp", chain |-> <<>>,
                args |-> <<timestamp, loadOK>>, err |-> r.err, ret |-> <<>>,
                head |-> currentHeader]
    /\ UNCHANGED pending

\* A caller hands blocks to insertChain.
InsertChainStep(chain, setHead) ==
  \E r \in {insertChain(BC, chain, setHead)} :
    /\ running
    /\ SetBC(r.s)
    /\ UNCHANGED pending
    /\ last' = [op |-> "insertChain", chain |-> chain, args |-> <<setHead>>,
                err |-> r.err, ret |-> <<r.n>>, head |-> currentHeader]

\* The chain is stopped: bc.chainmu.Close() waits for the holder of the lock
\* and closes it.
Stop ==
  /\ running
  /\ ~chainmu
  /\ ~chainmuClosed
  /\ SetBC([BC EXCEPT !.closed = TRUE])
  /\ UNCHANGED <<pending, last>>

\* The process dies between a committed batch and the in-memory markers.
Crash ==
  /\ running
  /\ InFlight
  /\ SetBC(Exited(BC))
  /\ UNCHANGED pending
  /\ last' = [last EXCEPT !.op = "crash"]


\* No validation is pending.
NoPending == [chain |-> <<>>, failAt |-> 0]

Init ==
  /\ InitBC
  /\ pending = NoPending
  /\ last = NoCall

Next ==
  \/ \E chain \in Batches, stop \in BOOLEAN, fail \in BOOLEAN :
       InsertHeaderChainStep(chain, stop, fail)
  \/ \E chain \in Batches, stop \in BOOLEAN : WriteHeadersStep(chain, stop)
  \/ StopInsert

Spec == Init /\ [][Next]_vars

\* The header chain under insertion, observed through GetAncestor.
NextAncestor ==
  \/ \E chain \in Batches : InsertHeaderChainStep(chain, FALSE, FALSE)
  \/ \E hash \in Headers, ancestor \in Numbers, budget \in 0..MaxBudget :
       GetAncestorStep(hash, ancestor, budget)

SpecAncestor == Init /\ [][NextAncestor]_vars

\* The header chain under insertion and under direct calls of Reorg.
NextReorg ==
  \/ \E chain \in Batches, fail \in BOOLEAN : InsertHeaderChainStep(chain, FALSE, fail)
  \/ \E chain \in Batches, fail \in BOOLEAN : ReorgStep(chain, fail)

SpecReorg == Init /\ [][NextReorg]_vars

\* ValidateHeaderChain over every header sequence and verifier outcome.
InitValidate ==
  /\ InitBC
  /\ pending \in [chain : Chains, failAt : 0..MaxChain]
  /\ last = NoCall

NextValidate ==
  \/ \E stopAt \in 0..MaxChain : ValidateHeaderChainStep(stopAt)
  \/ StopInsert

SpecValidate == InitValidate /\ [][NextValidate]_vars

\* The block chain under header insertion, pointer updates and rewinds. The
\* node follows its upstream: a batch extends the current header.
NextSetHead ==
  \/ \E chain \in {c \in Batches : ParentHash(First(c)) = currentHeader} :
       InsertHeaderChainStep(chain, FALSE, FALSE)
  \/ \E head \in 0..MaxNumber, loadOK \in BOOLEAN, eventOK \in BOOLEAN :
       SetHeadStep(head, loadOK, eventOK)
  \/ \E header \in dbHeaders \cup {NoHeader} : SetFinalizedStep(header)
  \/ \E header \in dbHeaders \cup {NoHeader} : SetSafeStep(header)

SpecSetHead == Init /\ [][NextSetHead]_vars

\* A store that starts empty, or seeded from an external ancient store with a
\* genesis header, its canonical hash and the head markers but without state
\* and configuration, across starts and ends of the node.
InitGenesis ==
  /\ \/ IsBC(EmptyChain)
     \/ \E g \in {h \in Headers : Number(h) \in GenesisNumbers} :
          IsBC([EmptyChain EXCEPT !.hdr = {g}, !.canon[Number(g)] = g,
                                  !.headHdr = g, !.headBlock = g, !.headFast = g])
  /\ pending = NoPending
  /\ last = NoCall

NextGenesis ==
  \/ \E genesis \in GenesisArgs, upstream \in Headers, clientOK \in BOOLEAN,
        compatErr \in CompatErrors :
       NewBlockChainStep(genesis, upstream, clientOK, compatErr)
  \/ \E genesis \in GenesisArgs, upstream \in Headers, clientOK \in BOOLEAN,
        compatErr \in CompatErrors :
       SetupGenesisStep(genesis, upstream, clientOK, compatErr)
  \/ Exit

SpecGenesis == InitGenesis /\ [][NextGenesis]_vars

\* Head updates in their two halves, crashes between the halves and restarts
\* of the node on the store the crash left.
NextRestart ==
  \/ ~Busy /\ \E chain \in Batches : InsertHeaderChainWriteStep(chain)
  \/ InsertHeaderChainPointerStep
  \/ ~Busy /\ \E loadOK \in BOOLEAN, eventOK \in BOOLEAN : ResetSetHeadStep(loadOK, eventOK)
  \/ ResetWriteStep
  \/ ResetPointerStep
  \/ Crash
  \/ NewBlockChainStep([DefaultGenesisBlock EXCEPT !.nil = TRUE], GenesisHash, TRUE,
                       NoCompatError)

SpecRestart == Init /\ [][NextRestart]_vars


\* The stores a node may be started on: the upstream main chain up to top
\* (possibly with missing headers between genesis and top), all three head
\* markers at top, the state of some headers materialized, of others
\* recoverable from the state history, and a snap-sync pivot marker or none.
SeedStores ==
  {[Commit(EmptyChain, GenesisHash, MainnetConfig) EXCEPT
      !.hdr = hdrs,
      !.canon = [n \in Numbers |-> IF n <= MaxNumber /\ Hash(0, n) \in hdrs
                                   THEN Hash(0, n) ELSE EmptyHash],
      !.headHdr = top, !.headBlock = top, !.headFast = top,
      !.state = st, !.recov = rec, !.pivot = piv] :
     top \in {h \in Headers : Branch(h) = 0 /\ h # GenesisHash},
     hdrs \in SUBSET {h \in Headers : Branch(h) = 0},
     st \in SUBSET {h \in Headers : Branch(h) = 0},
     rec \in SUBSET {h \in Headers : Branch(h) = 0},
     piv \in {{}} \cup {{n} : n \in 0..MaxNumber}}

\* The node is started on a seeded store whose genesis state is there.
InitRewind ==
  /\ \E s \in SeedStores :
       /\ {GenesisHash, s.headBlock} \subseteq s.hdr
       /\ \A h \in s.hdr : Number(h) <= Number(s.headBlock)
       /\ GenesisHash \in s.state
       /\ s.state \subseteq s.hdr
       /\ s.recov \subseteq s.hdr \ s.state
       /\ IsBC(NewBlockChain(s, [DefaultGenesisBlock EXCEPT !.nil = TRUE],
                             GenesisHash, TRUE, FALSE).s)
  /\ pending = NoPending
  /\ last = NoCall

\* Rewinds of such a node.
NextRewind ==
  \E head \in 0..MaxNumber, loadOK \in BOOLEAN, eventOK \in BOOLEAN :
    SetHeadStep(head, loadOK, eventOK)

SpecRewind == InitRewind /\ [][NextRewind]_vars

\* Rewinds and resets of a chain that is stopped at some point.
NextStop ==
  \/ ~Busy /\ \E chain \in {c \in Batches : ParentHash(First(c)) = currentHeader} :
                InsertHeaderChainStep(chain, FALSE, FALSE)
  \/ ~Busy /\ \E head \in 0..MaxNumber, loadOK \in BOOLEAN, eventOK \in BOOLEAN :
                SetHeadStep(head, loadOK, eventOK)
  \/ ~Busy /\ \E timestamp \in 0..MaxNumber, loadOK \in BOOLEAN, eventOK \in BOOLEAN :
                SetHeadWithTimestampStep(timestamp, loadOK, eventOK)
  \/ ~Busy /\ \E loadOK \in BOOLEAN, eventOK \in BOOLEAN : ResetSetHeadStep(loadOK, eventOK)
  \/ ResetWriteStep
  \/ ResetPointerStep
  \/ Stop

SpecStop == Init /\ [][NextStop]_vars

\* Batches of the upstream main chain.
MainBatches == {c \in Batches : Branch(Last(c)) = 0}

\* The insertion methods before and after StopInsert. WriteHeaders, insertChain
\* and the validation take batches of the upstream main chain; the verifier
\* accepts the batch or rejects its first header; InsertHeaderChain extends
\* the current header.
InitInterrupt ==
  /\ InitBC
  /\ pending \in [chain : MainBatches, failAt : {0, 1}]
  /\ last = NoCall

NextInterrupt ==
  \/ StopInsert
  \/ \E chain \in {c \in Batches : ParentHash(First(c)) = currentHeader} :
       InsertHeaderChainStep(chain, FALSE, FALSE)
  \/ \E chain \in MainBatches : WriteHeadersStep(chain, FALSE)
  \/ ValidateHeaderChainStep(0)
  \/ \E chain \in MainBatches, setHead \in BOOLEAN : InsertChainStep(chain, setHead)

SpecInterrupt == InitInterrupt /\ [][NextInterrupt]_vars

\* ------------------------------------------------- reference definitions

\* The j-th ancestor of h by parent links (EmptyHash beyond the genesis block).
RECURSIVE Anc(_, _)
Anc(h, j) == IF j = 0 \/ h = EmptyHash THEN h ELSE Anc(ParentHash(h), j - 1)

\* The ancestor of h (or h itself) at number n <= Number(h).
AncAt(h, n) == Anc(h, Number(h) - n)

\* The highest number at which an ancestor of h (or h) is canonical in canon.
ForkPoint(canon, h) ==
  CHOOSE n \in 0..Number(h) :
    /\ canon[n] = AncAt(h, n)
    /\ \A m \in (n + 1)..Number(h) : canon[m] # AncAt(h, m)

StepIs(op) == last'.op = op /\ vars' # vars

InStore(chain) == \A i \in 1..Len(chain) : chain[i] \in dbHeaders

CanonUnchanged ==
  /\ dbCanon' = dbCanon
  /\ dbHeadHeader' = dbHeadHeader
  /\ currentHeader' = currentHeader

\* ------------------------------------------------------------------ C1

\* C1: after InsertHeaderChain has run Reorg successfully with a chain B whose
\* fork point with the canonical chain is below the current head, the canonical
\* hash is B's (or B's ancestor's) for every number in (forkPoint, tailB.number],
\* unchanged up to the fork point and empty above tailB.number.
C1_ReorgReplacesSuffix ==
  [][(/\ StepIs("InsertHeaderChain")
      /\ last'.err = "nil"
      /\ last'.ret[1] = CanonStatTy
      /\ \E n \in 0..Number(Last(last'.chain)) : dbCanon[n] = AncAt(Last(last'.chain), n)
      /\ ForkPoint(dbCanon, Last(last'.chain)) < Number(currentHeader))
     => LET tail == Last(last'.chain)
            fp == ForkPoint(dbCanon, tail)
        IN \A n \in Numbers :
             /\ n <= fp => dbCanon'[n] = dbCanon[n]
             /\ (fp < n /\ n <= Number(tail)) => dbCanon'[n] = AncAt(tail, n)
             /\ n > Number(tail) => dbCanon'[n] = EmptyHash]_vars

\* A reorg onto a side chain whose tail lies below the old head has happened.
C1_Witness ==
  /\ last.op = "InsertHeaderChain"
  /\ last.err = "nil"
  /\ last.ret[1] = CanonStatTy
  /\ ParentHash(First(last.chain)) # last.head
  /\ Number(Last(last.chain)) < Number(last.head)
  /\ dbCanon[Number(last.head)] = EmptyHash

\* ------------------------------------------------------------------ C2

\* C2: the canonical mapping is contiguous up to the current header: every
\* number above the genesis number maps to a stored header of that number
\* whose parent is the canonical hash of the number below.
C2_CanonicalContiguous ==
  \A n \in Numbers :
    (GenesisNumber < n /\ n <= Number(currentHeader))
      => /\ dbCanon[n] \in dbHeaders
         /\ Number(dbCanon[n]) = n
         /\ ParentHash(dbCanon[n]) = dbCanon[n - 1]

\* A reorg onto a side chain that reuses a stored non-canonical parent.
C2_Witness ==
  /\ last.op = "InsertHeaderChain"
  /\ last.err = "nil"
  /\ last.ret[1] = CanonStatTy
  /\ Number(currentHeader) >= 2
  /\ ParentHash(First(last.chain)) # last.head
  /\ Branch(ParentHash(First(last.chain))) # Branch(last.head)
  /\ ParentHash(First(last.chain)) # GenesisHash

\* ------------------------------------------------------------------ C4

\* C4 as claimed: re-inserting a batch that is wholly in the store reports zero
\* imported headers and leaves the canonical mapping, the head-header marker
\* and the current header unchanged, for every such batch.
C4_Claimed ==
  [][(StepIs("InsertHeaderChain") /\ InStore(last'.chain) /\ last'.err = "nil")
     => (last'.ret[2] = 0 /\ CanonUnchanged)]_vars

\* C4 as amended: re-inserting a batch that is wholly in the store reports zero
\* imported headers; it leaves the canonical mapping, the head-header marker and
\* the current header unchanged when the batch's last header is canonical at a
\* number not above the current header, and otherwise Reorg makes the batch
\* canonical and its last header the current header.
C4_ReinsertKnown ==
  [][(StepIs("InsertHeaderChain") /\ InStore(last'.chain) /\ last'.err = "nil")
     => LET tail == Last(last'.chain)
        IN /\ last'.ret[2] = 0
           /\ dbHeaders' = dbHeaders
           /\ IF dbCanon[Number(tail)] = tail /\ Number(tail) <= Number(currentHeader)
              THEN CanonUnchanged /\ last'.ret[1] = NonStatTy
              ELSE /\ \A i \in 1..Len(last'.chain) :
                        dbCanon'[Number(last'.chain[i])] = last'.chain[i]
                   /\ dbHeadHeader' = tail
                   /\ currentHeader' = tail
                   /\ last'.ret[1] = CanonStatTy]_vars

\* A batch of known canonical headers below the head was re-inserted.
C4_Witness ==
  /\ last.op = "InsertHeaderChain"
  /\ last.err = "nil"
  /\ last.ret[1] = NonStatTy
  /\ last.ret[2] = 0
  /\ Number(Last(last.chain)) < Number(currentHeader)

\* ------------------------------------------------------------------ C5

\* C5: whenever InsertHeaderChain returns an error, no header of the batch has
\* been written to the store and the canonical mapping, the head-header marker
\* and the current header are unchanged.
C5_AllOrNothing ==
  [][(StepIs("InsertHeaderChain") /\ last'.err # "nil")
     => (dbHeaders' = dbHeaders /\ CanonUnchanged)]_vars

\* ----------------------------------------------------------------- C10

\* C10: WriteHeaders on a batch whose first header's parent is not stored fails
\* with the unknown-ancestor error, returns 0 and changes neither the store
\* nor the header and number caches.
C10_UnknownAncestor ==
  [][(/\ StepIs("WriteHeaders")
      /\ ParentHash(First(last'.chain)) \notin dbHeaders)
     => /\ last'.err = "ErrUnknownAncestor"
        /\ last'.ret[1] = 0
        /\ dbHeaders' = dbHeaders
        /\ headerCache' = headerCache
        /\ numberCache' = numberCache]_vars

\* ------------------------------------------------------------- C8, C9

AncestorQuery == last.op = "GetAncestor" /\ last.args[1] \in dbHeaders

IsCanonical(h) == h # EmptyHash /\ dbCanon[Number(h)] = h

\* The number of non-canonical headers a walk of k parent steps from h passes
\* before it reaches a canonical header (k if it reaches none).
NonCanonicalHops(h, k) ==
  CHOOSE j \in 0..k :
    /\ j = k \/ IsCanonical(Anc(h, j))
    /\ \A i \in 0..(j - 1) : ~IsCanonical(Anc(h, i))

\* C8 as claimed: for every stored header (hash, n), GetAncestor(hash, n, 0, b)
\* is (hash, n) and GetAncestor(hash, n, 1, b) is (ParentHash, n-1), and neither
\* changes the budget.
C8_Claimed ==
  AncestorQuery =>
    LET h == last.args[1]
        n == last.args[2]
        b == last.args[4]
    IN /\ last.args[3] = 0 => last.ret = <<h, n, b>>
       /\ last.args[3] = 1 => last.ret = <<ParentHash(h), PrevNumber(n), b>>

\* C8 as amended: for every stored header (hash, n), GetAncestor(hash, n, 0, b)
\* is (hash, n); GetAncestor(hash, n, 1, b) is (ParentHash, n-1) when n >= 1 and
\* the zero result (empty hash, 0) when n = 0; neither changes the budget.
C8_NearAncestors ==
  AncestorQuery =>
    LET h == last.args[1]
        n == last.args[2]
        b == last.args[4]
    IN /\ last.args[3] = 0 => last.ret = <<h, n, b>>
       /\ (last.args[3] = 1 /\ n >= 1) => last.ret = <<ParentHash(h), n - 1, b>>
       /\ (last.args[3] = 1 /\ n = 0) => last.ret = <<EmptyHash, 0, b>>

\* The parent of a stored non-canonical header was asked for with budget 0.
C8_Witness ==
  /\ AncestorQuery
  /\ last.args[3] = 1
  /\ last.args[4] = 0
  /\ ~IsCanonical(last.args[1])
  /\ last.ret[1] = ParentHash(last.args[1])

StoreUnchanged ==
  UNCHANGED <<dbHeaders, dbCanon, dbHeadHeader, dbHeadBlock, dbHeadFast,
              dbFinalized, dbConfig, dbState, dbRecoverable, dbPivot>>

\* C6: when the store holds a canonical hash G1 at the configured genesis
\* number and the bootstrap resolves a genesis hash G2 # G1, it returns the
\* genesis-mismatch error and writes nothing to the store (headers, canonical
\* mapping, head markers, chain config and state), and NewBlockChain fails
\* with that error: no chain is constructed.
C6_GenesisMismatch ==
  [][(/\ StepIs("NewBlockChain")
      /\ last'.err \notin {"errGenesisNoConfig", "client"}
      /\ last'.args[3] # EmptyHash
      /\ last'.args[2] # last'.args[3])
     => (/\ last'.err = "GenesisMismatchError"
         /\ StoreUnchanged
         /\ ~running')]_vars

\* A node was started on a store holding a chain whose canonical hash at the
\* genesis number differs from the upstream hash.
C6_Witness ==
  /\ last.op = "NewBlockChain"
  /\ last.err = "GenesisMismatchError"
  /\ last.args[3] \in dbHeaders
  /\ last.args[2] # last.args[3]
  /\ Cardinality(dbHeaders) >= 2

\* ------------------------------------------------------------------ C7

Contiguous(chain) ==
  \A k \in 2..Len(chain) : Number(chain[k]) = Number(chain[k - 1]) + 1

\* The first position (counted from 1) whose number does not follow.
FirstGap(chain) ==
  CHOOSE k \in 2..Len(chain) :
    /\ Number(chain[k]) # Number(chain[k - 1]) + 1
    /\ \A j \in 2..(k - 1) : Number(chain[j]) = Number(chain[j - 1]) + 1

Validated == last.op = "ValidateHeaderChain"

\* C7 as claimed: ValidateHeaderChain accepts a batch only if every header's
\* number is its predecessor's plus one; otherwise it rejects at the first
\* violating index i with the non-contiguity error and returns index i-1.
C7_Claimed ==
  Validated =>
    /\ last.err = "nil" => Contiguous(last.chain)
    /\ ~Contiguous(last.chain)
         => /\ last.err = "non contiguous insert"
            /\ last.ret[1] = (FirstGap(last.chain) - 1) - 1

\* C7 as amended: ValidateHeaderChain accepts a batch only if every header's
\* number is its predecessor's plus one. Otherwise it rejects at the first
\* violating index i with the non-contiguity error, whose text names items i-1
\* and i, and the returned index is 0; unless a header before index i has a
\* banned parent, which rejects there with ErrBannedHash and that header's
\* index minus one.
C7_Contiguity ==
  Validated =>
    /\ last.err = "nil" => Contiguous(last.chain)
    /\ ~Contiguous(last.chain)
         => LET k == FirstGap(last.chain)
                banned == {j \in 2..(k - 1) : ParentHash(last.chain[j]) \in BadHashes}
            IN IF banned = {}
               THEN /\ last.err = "non contiguous insert"
                    /\ last.ret[1] = 0
                    /\ last.args = <<k - 2, k - 1>>
               ELSE /\ last.err = "ErrBannedHash"
                    /\ \E j \in banned : /\ last.ret[1] = j - 2
                                         /\ \A m \in banned : j <= m

\* A batch whose third header breaks the numbering was rejected.
C7_Witness ==
  /\ Validated
  /\ last.err = "non contiguous insert"
  /\ last.args = <<1, 2>>
  /\ last.ret[1] = 0

\* ---------------------------------------------------------------- SetHead

\* The nearest ancestor of h (or h itself) whose state is materialized.
RECURSIVE StatefulAncestor(_)
StatefulAncestor(h) ==
  IF h = EmptyHash \/ h \in dbState \/ h \in EmptyRootHeaders THEN h
  ELSE StatefulAncestor(ParentHash(h))

\* A pointer is unset or at most at number n.
NotAbove(pointer, n) == pointer = NoHeader \/ Number(pointer) <= n

\* C3: SetHead(N), N the number of a canonical block, leaves CurrentBlock()
\* at number N when block N has materialized state; when only an ancestor
\* M < N has state the head block lands on M, and in both cases no finalized or
\* safe pointer is left above the number the head block landed on. Calls the
\* upstream client made fail are set aside.
C3_SetHeadLands ==
  [][(/\ StepIs("SetHead")
      /\ last'.err \notin {"blocked", "current block missing"}
      /\ dbCanon[last'.args[1]] # EmptyHash
      /\ StatefulAncestor(dbCanon[last'.args[1]]) # EmptyHash)
     => LET M == StatefulAncestor(dbCanon[last'.args[1]])
        IN /\ currentBlock' # NoHeader
           /\ Number(currentBlock') = Number(M)
           /\ NotAbove(currentFinalBlock', Number(M))
           /\ NotAbove(currentSafeBlock', Number(M))]_vars

\* ------------------------------------------------------------- C11, C12

\* The batch of the last validation holds a banned header.
HoldsBanned == \E i \in 1..Len(last.chain) : last.chain[i] \in BadHashes

\* C11: ValidateHeaderChain rejects every batch that holds a header whose hash
\* is banned with the banned-hash error, before the consensus engine is
\* consulted, whatever the length of the batch (a single header included).
C11_BannedRejected ==
  (Validated /\ HoldsBanned) => (last.err = "ErrBannedHash" /\ ~last.ret[2])

\* The frame of ValidateHeaderChain: the stored headers, the canonical mapping,
\* the head markers, the current header and both caches.
ChainStateUnchanged ==
  /\ dbHeaders' = dbHeaders
  /\ dbCanon' = dbCanon
  /\ dbHeadHeader' = dbHeadHeader
  /\ dbHeadBlock' = dbHeadBlock
  /\ dbHeadFast' = dbHeadFast
  /\ dbFinalized' = dbFinalized
  /\ currentHeader' = currentHeader
  /\ headerCache' = headerCache
  /\ numberCache' = numberCache

\* C12: ValidateHeaderChain changes no chain state on any return path; when the
\* engine reports a failure (and no interrupt came first) it returns the index
\* of the first failing header; the abort channel is closed exactly once when
\* verification was started and never otherwise.
C12_ValidationPure ==
  [][StepIs("ValidateHeaderChain")
     => /\ ChainStateUnchanged
        /\ last'.err \in {"nil", "non contiguous insert", "ErrBannedHash",
                          "invalid header", "aborted"}
        /\ last'.err = "invalid header"
             => (last'.ret[1] = pending.failAt - 1 /\ last'.chain = pending.chain)
        /\ last'.ret[3] = (IF last'.ret[2] THEN 1 ELSE 0)
        /\ last'.ret[2] = (last'.err \notin {"non contiguous insert", "ErrBannedHash"})]_vars

\* The engine rejected the second header of a batch of three.
C12_Witness ==
  /\ Validated
  /\ Len(last.chain) = 3
  /\ last.err = "invalid header"
  /\ last.ret = <<1, TRUE, 1>>

\* ------------------------------------------------------------------ C13

\* The last call ran Reorg and Reorg failed.
ReorgFailed ==
  /\ last'.op \in {"Reorg", "InsertHeaderChain"}
  /\ last'.err \in {"missing parent", "write failed"}
  /\ vars' # vars

\* C13: when Reorg fails, on a missing parent during the walk back to the fork
\* point or on the batch commit, the canonical mapping, the head-header marker
\* and the current header are what they were before the call.
C13_ReorgFailureKeeps ==
  [][ReorgFailed => CanonUnchanged]_vars

\* Reorg met a missing parent after the walk had scheduled the overwrite of
\* a canonical entry of the old chain.
C13_Witness ==
  /\ last.op = "Reorg"
  /\ last.err = "missing parent"
  /\ dbCanon[Number(First(last.chain))] \notin {EmptyHash, First(last.chain)}

\* ----------------------------------------------------------------- C14

\* The header a pointer holds when it was loaded from the marker hash.
Marked(hash) == IF hash \in dbHeaders' THEN hash ELSE NoHeader

\* A step of a running chain never moves a head pointer to a header that the
\* pointer's marker in the store does not name by then, and the step that
\* finishes a head update finds its batch in the store.
CommitFirst ==
  /\ (running /\ running' /\ currentHeader' # currentHeader)
       => currentHeader' = dbHeadHeader'
  /\ (running /\ running' /\ currentBlock' \notin {currentBlock, NoHeader})
       => currentBlock' = dbHeadBlock'
  /\ (running /\ running' /\ currentSnapBlock' \notin {currentSnapBlock, NoHeader})
       => currentSnapBlock' = dbHeadFast'
  /\ (InFlight /\ running')
       => /\ StoreUnchanged
          /\ currentHeader' = dbHeadHeader

\* The start after a crash between the two halves of a head update sets the
\* in-memory pointers to the headers the persisted markers name.
RestartLoads ==
  (last.op = "crash" /\ StepIs("NewBlockChain") /\ last'.err = "nil")
    => /\ currentHeader' = Marked(dbHeadHeader')
       /\ currentBlock' = Marked(dbHeadBlock')
       /\ currentSnapBlock' = Marked(dbHeadFast')

\* C14: in writeHeadBlock and in Reorg the batch is in the store before an
\* in-memory head pointer changes, no in-memory pointer of a running chain
\* names a header whose batch is not in the store, and the start after a crash
\* between the two halves sets the current header, the current block and the
\* snap block to the headers the persisted markers name.
C14_CommitBeforePointers == [][CommitFirst /\ RestartLoads]_vars

\* The order of the two halves alone.
C14_Order == [][CommitFirst]_vars

\* ----------------------------------------------------------------- C15

\* The chain is at its genesis: markers, pointers and canonical mapping.
AtGenesis ==
  /\ currentBlock = genesisHeader
  /\ currentSnapBlock = genesisHeader
  /\ currentHeader = genesisHeader
  /\ dbHeadBlock = genesisHeader
  /\ dbHeadFast = genesisHeader
  /\ dbHeadHeader = genesisHeader
  /\ \A n \in Numbers : n > Number(genesisHeader) => dbCanon[n] = EmptyHash

\* loadLastState finds the head block and the headers the markers name.
MarkersFound ==
  /\ last.args[2]
  /\ {dbHeadBlock, dbHeadHeader, dbHeadFast} \subseteq dbHeaders
  /\ dbFinalized \in dbHeaders \cup {EmptyHash}

\* C15: loadLastState (run at the end of SetHead) sets the current block, the
\* current header and the snap block to the headers the head-block, head-header
\* and head-fast markers name and the finalized and safe blocks to the header
\* the finalized marker names; when the head block or one of these headers
\* cannot be found, the chain is reset to its genesis.
C15_LoadLastState ==
  [][(StepIs("SetHead") /\ last'.err # "panic")
     => IF MarkersFound'
        THEN /\ currentBlock' = dbHeadBlock'
             /\ currentHeader' = dbHeadHeader'
             /\ currentSnapBlock' = dbHeadFast'
             /\ dbFinalized' # EmptyHash
                  => (currentFinalBlock' = dbFinalized' /\ currentSafeBlock' = dbFinalized')
        ELSE AtGenesis']_vars

\* The part of C15 that holds: what loadLastState does when the head block and
\* the marked headers are found.
C15_Restores ==
  [][(StepIs("SetHead") /\ last'.err # "panic" /\ MarkersFound')
     => /\ currentBlock' = dbHeadBlock'
        /\ currentHeader' = dbHeadHeader'
        /\ currentSnapBlock' = dbHeadFast'
        /\ dbFinalized' # EmptyHash
             => (currentFinalBlock' = dbFinalized' /\ currentSafeBlock' = dbFinalized')]_vars

\* ----------------------------------------------------------------- C16

\* The state of h is materialized or recoverable.
Usable(h) == h \in dbState \/ h \in EmptyRootHeaders \/ h \in dbRecoverable

\* Where a rewind that starts at the stored header h ends.
RECURSIVE Land(_)
Land(h) ==
  IF Usable(h) \/ h = genesisHeader THEN h
  ELSE IF (\E pivot \in dbPivot : Number(h) <= pivot) \/ ParentHash(h) \notin dbHeaders
       THEN genesisHeader
       ELSE Land(ParentHash(h))

\* SetHead rewinds the header chain by one header, so that updateFn runs once,
\* on the stored parent of the current header, at or below the current block.
Rewinds ==
  /\ StepIs("SetHead")
  /\ last'.err \notin {"panic", "blocked"}
  /\ currentBlock # NoHeader
  /\ last'.args[1] + 1 = Number(currentHeader)
  /\ last'.args[1] <= Number(currentBlock)
  /\ ParentHash(currentHeader) \in dbHeaders

NothingChanges ==
  UNCHANGED <<dbHeaders, dbCanon, dbHeadHeader, dbHeadBlock, dbHeadFast,
              dbFinalized, dbConfig, dbState, dbRecoverable, dbPivot,
              currentHeader, headerCache, numberCache, procInterrupt,
              currentBlock, currentSnapBlock, currentFinalBlock, currentSafeBlock,
              genesisHeader, running, chainmu, chainmuClosed, blockCache, pending>>

\* A caller starts SetHead, SetHeadWithTimestamp or Reset.
MutationStarts ==
  /\ ~Busy
  /\ last' # last
  /\ last'.op \in {"SetHead", "SetHeadWithTimestamp", "Reset", "Reset.SetHead"}

InsertionCall ==
  /\ vars' # vars
  /\ last' # last
  /\ last'.op \in {"InsertHeaderChain", "WriteHeaders", "ValidateHeaderChain", "insertChain"}
  /\ Len(last'.chain) > 0

\* C18: StopInsert is permanent, and after it every call of InsertHeaderChain,
\* WriteHeaders, ValidateHeaderChain and insertChain with a non-empty input
\* returns an aborted/interrupted error, never a success, and writes nothing to
\* the store.
C18_StopInsertPermanent ==
  [][/\ procInterrupt => procInterrupt'
     /\ (procInterrupt /\ InsertionCall)
          => (last'.err \in {"aborted", "errInsertionInterrupted"} /\ StoreUnchanged)]_vars

\* The part of C18 that holds: the flag stays set, nothing is written to the
\* store after StopInsert, and no header-chain method returns a success.
C18_HeaderChainStops ==
  [][/\ procInterrupt => procInterrupt'
     /\ (procInterrupt /\ InsertionCall)
          => /\ StoreUnchanged
             /\ last'.op # "insertChain" => last'.err # "nil"]_vars

\* ----------------------------------------------------------------- C19

\* The bootstrap returned without error on a store that held no canonical hash
\* at the genesis number.
FreshBootstrap ==
  /\ StepIs("SetupGenesisBlock")
  /\ last'.args[3] = EmptyHash
  /\ last'.err = "nil"

SameGenesis ==
  /\ vars' # vars
  /\ last' # last
  /\ last'.op \in {"SetupGenesisBlock", "NewBlockChain"}
  /\ last'.args[3] = last'.args[2]

\* C20: a bootstrap with the genesis the store already holds, whose state root
\* is materialized or empty, does not commit again: the stored headers, the
\* states, the canonical mapping and the three head markers are unchanged. The
\* genesis is committed again only when its non-empty state root is not
\* materialized, and then its state is there afterwards.
C20_BootstrapIdempotent ==
  [][SameGenesis
     => LET stored == last'.args[3]
        IN IF stored \in dbState \/ stored \in EmptyRootHeaders
           THEN /\ dbHeaders' = dbHeaders
                /\ dbState' = dbState
                /\ dbCanon' = dbCanon
                /\ dbHeadBlock' = dbHeadBlock
                /\ dbHeadFast' = dbHeadFast
                /\ dbHeadHeader' = dbHeadHeader
           ELSE last'.err = "nil"
                  => (stored \in dbState' /\ dbHeadHeader' = stored)]_vars

\* The bootstrap ran again with a genesis the store holds with its state while
\* the head markers name another header.
C20_Witness ==
  /\ last.op = "SetupGenesisBlock"
  /\ last.err = "nil"
  /\ last.args[3] = last.args[2]
  /\ last.args[2] \in dbState
  /\ dbHeadHeader # last.args[2]
  /\ dbHeadBlock # last.args[2]

\* ----------------------------------------------------------------- C21

\* The bootstrap reaches the compatibility check: the store holds the genesis
\* it is given with its state, a configuration and a head header, the
\* configuration handed in passes the fork-order check and differs from the
\* stored one, and CheckCompatible answers with an error.
CompatChecked ==
  /\ vars' # vars
  /\ last' # last
  /\ last'.op = "SetupGenesisBlock"
  /\ last'.args[3] = last'.args[2]
  /\ last'.err \in {"nil", "ConfigCompatError"}
  /\ ~StateMissing(BC, last'.args[3])
  /\ dbConfig[last'.args[3]] \notin {NoConfig, last'.args[4]}
  /\ dbHeadHeader # EmptyHash
  /\ ~last'.args[5].nil

\* The error is returned and the stored configuration is left alone.
CompatRefused == last'.err = "ConfigCompatError" /\ dbConfig' = dbConfig

\* No error is returned and the new configuration replaces the stored one.
CompatReplaced ==
  /\ last'.err = "nil"
  /\ dbConfig' = [dbConfig EXCEPT ![last'.args[3]] = last'.args[4]]

MismatchReported ==
  /\ vars' # vars
  /\ last' # last
  /\ last'.op = "NewBlockChain"
  /\ last'.args[3] \notin {EmptyHash, last'.args[2]}

\* NewBlockChain runs on a store whose configuration is incompatible with the
\* one handed in, with a rewind target other than zero and the head header
\* past number or time zero: the bootstrap reports the compatibility error.
CompatReported ==
  /\ vars' # vars
  /\ last' # last
  /\ last'.op = "NewBlockChain"
  /\ last'.args[3] = last'.args[2]
  /\ ~StateMissing(BC, last'.args[3])
  /\ dbConfig[last'.args[3]] \notin {NoConfig, last'.args[4]}
  /\ dbHeadHeader # EmptyHash
  /\ CompatFatal(dbHeadHeader, last'.args[5])

\* The construction failed: an error and no running chain.
ConstructionFails == last'.err # "nil" /\ ~running'

\* C22: every fatal initialization condition (genesis hash mismatch, genesis
\* header absent after the bootstrap, compatibility error with a rewind target
\* other than zero past height or time zero) makes NewBlockChain return an
\* error and no block chain.
C22_FatalInit ==
  [][(MismatchReported \/ CompatReported) => ConstructionFails]_vars

\* The part of C22 the code keeps: a genesis hash mismatch fails the
\* construction, and a chain that was constructed has its genesis header.
C22_MismatchFatal ==
  [][/\ MismatchReported => ConstructionFails
     /\ (last' # last /\ last'.op = "NewBlockChain" /\ last'.err = "nil")
          => (running' /\ genesisHeader' # NoHeader /\ genesisHeader' \in dbHeaders')]_vars

\* ------------------------------------------------------ message translator

\* How deep the calls of a goroutine may nest before the runtime ends the
\* process with a stack overflow.
MaxStack == 3

\* params.DefaultFeeReductionDenominator, which ChainConfig.FeeReductionDenominator
\* returns for every configuration.
DefaultFeeReductionDenominator == 50

\* config.FeeReductionDenominator().
FeeReductionDenominator(config) == DefaultFeeReductionDenominator

\* params.DefaultBeaconAddress, another address, and no recipient.
DefaultBeaconAddress == "0x315e"
Recipients == {"nil", DefaultBeaconAddress, "0xother"}

\* The transaction types.
BlobTxType == "BlobTxType"
TxTypes == {"LegacyTxType", "DynamicFeeTxType", BlobTxType}

\* The payloads of upstream transactions, as the items of their RLP encoding:
\* none, the list of the five fields of a MiveTx (gas, to, value, data, access
\* list), and a list that is not a MiveTx.
MiveTxPayload == <<21, "0xto", 7, "input", "accesslist">>
Payloads == {<<>>, MiveTxPayload, <<21>>}

\* The payload is the encoding of a MiveTx record.
Decodable(data) == Len(data) = 5

\* The fee fields of upstream transactions (gas price, fee cap, tip cap) and
\* the base fees of their blocks; <<>> is a nil base fee.
Fees == {<<1000, 2000, 40>>, <<0, 0, 0>>, <<49, 50, 51>>, <<2000, 1000, 1000>>}
BaseFees == {<<>>, <<0>>, <<200>>}

\* The upstream transactions; signed: gethtypes.Sender(s, tx) recovers a sender.
Transactions ==
  {[to |-> to, type |-> type, data |-> data, gasPrice |-> fee[1],
    gasFeeCap |-> fee[2], gasTipCap |-> fee[3], signed |-> signed] :
      to \in Recipients, type \in TxTypes, data \in Payloads, fee \in Fees,
      signed \in BOOLEAN}

\* MiveTx.DecodeRLP: `return s.Decode(tx)`. Stream.Decode decodes a value
\* whose pointer type implements rlp.Decoder by calling its DecodeRLP, so the
\* method calls itself without reading from the stream until the stack is full.
RECURSIVE DecodeRLP(_, _)
DecodeRLP(data, depth) ==
  IF depth = MaxStack THEN [err |-> "stack overflow", mtx |-> <<>>]
  ELSE DecodeRLP(data, depth + 1)

\* rlp.DecodeBytes(tx.Data(), &mtx).
DecodeBytes(data) == DecodeRLP(data, 0)

\* A smaller-of that returns the larger one.
BigMin_Max(x, y) == IF x < y THEN y ELSE x

\* math.BigMin.
BigMin(x, y) == IF x < y THEN x ELSE y

\* new(big.Int).Div(fee, denom).
Reduce(fee, denom) == fee \div denom

\* The base-fee branch of TransactionToMessage: the reduced tip cap plus the
\* reduced base fee, capped by the reduced fee cap.
EffectiveGasPrice(GasTipCap, GasFeeCap, baseFee, feeReductionDenom) ==
  BigMin(GasTipCap + Reduce(baseFee, feeReductionDenom), GasFeeCap)

\* The message that TransactionToMessage builds from the upstream transaction,
\* the decoded MiveTx and the base fee, before the sender is recovered.
BuildMessage(tx, mtx, baseFee, config) ==
  LET feeReductionDenom == FeeReductionDenominator(config)
      GasFeeCap == Reduce(tx.gasFeeCap, feeReductionDenom)
      GasTipCap == Reduce(tx.gasTipCap, feeReductionDenom)
  IN [GasLimit |-> mtx[1], To |-> mtx[2], Value |-> mtx[3], Data |-> mtx[4],
      AccessList |-> mtx[5],
      GasPrice |-> IF baseFee = <<>> THEN Reduce(tx.gasPrice, feeReductionDenom)
                   ELSE EffectiveGasPrice(GasTipCap, GasFeeCap, baseFee[1],
                                          feeReductionDenom),
      GasFeeCap |-> GasFeeCap,
      GasTipCap |-> GasTipCap]

\* `tx.To() == nil || *tx.To() != config.Mive.BeaconAddress`.
NotToBeacon(tx, config) == tx.to = "nil" \/ tx.to # DefaultBeaconAddress

\* TransactionToMessage. msg <<>> is a nil message; err "fatal" is the end of
\* the process.
TransactionToMessage(tx, baseFee, config) ==
  IF NotToBeacon(tx, config) THEN [msg |-> <<>>, err |-> "nil"]
  ELSE IF tx.type = BlobTxType THEN [msg |-> <<>>, err |-> "nil"]
  ELSE IF Len(tx.data) = 0 THEN [msg |-> <<>>, err |-> "nil"]
  ELSE LET d == DecodeBytes(tx.data)
       IN IF d.err = "stack overflow" THEN [msg |-> <<>>, err |-> "fatal"]
          ELSE IF d.err # "nil" THEN [msg |-> <<>>, err |-> "nil"]
          ELSE [msg |-> <<BuildMessage(tx, d.mtx, baseFee, config)>>,
                err |-> IF tx.signed THEN "nil" ELSE "ErrInvalidSig"]

\* The block pipeline translates an upstream transaction. args: the
\* transaction and the base fee; ret: the message, if there is one.
TransactionToMessageStep(tx, baseFee) ==
  \E r \in {TransactionToMessage(tx, baseFee, MainnetConfig)} :
    /\ running
    /\ last' = [op |-> "TransactionToMessage", chain |-> <<>>,
                args |-> <<tx, baseFee>>, err |-> r.err, ret |-> r.msg,
                head |-> currentHeader]
    /\ IF r.err = "fatal" THEN SetBC(Exited(BC)) ELSE SetBC(BC)
    /\ UNCHANGED pending

\* The block pipeline at work.
NextTranslate ==
  \E tx \in Transactions, baseFee \in BaseFees : TransactionToMessageStep(tx, baseFee)

SpecTranslate == Init /\ [][NextTranslate]_vars

\* ----------------------------------------------------------------- C23

\* A transaction that passes the filter of TransactionToMessage with the
\* encoding of a MiveTx as its payload was translated.
Translated ==
  /\ StepIs("TransactionToMessage")
  /\ last' # last
  /\ last'.args[1].to = DefaultBeaconAddress
  /\ last'.args[1].type # BlobTxType
  /\ Decodable(last'.args[1].data)

\* C23: without a base fee the message of a transaction to the beacon address
\* with a decodable payload carries the gas price, fee cap and tip cap of the
\* transaction, each divided by the fee-reduction denominator of the chain
\* configuration and rounded down.
C23_FeeReduction ==
  [][(Translated /\ last'.args[2] = <<>>)
     => LET tx == last'.args[1]
            denom == FeeReductionDenominator(MainnetConfig)
        IN /\ Len(last'.ret) = 1
           /\ last'.ret[1].GasPrice = tx.gasPrice \div denom
           /\ last'.ret[1].GasFeeCap = tx.gasFeeCap \div denom
           /\ last'.ret[1].GasTipCap = tx.gasTipCap \div denom]_vars

\* ----------------------------------------------------------------- C24

\* C24: with a base fee the gas price of the message is the smaller of the
\* reduced tip cap plus the reduced base fee and the reduced fee cap, and the
\* tip cap and fee cap of the message are the reduced ones.
C24_EffectiveGasPrice ==
  [][(Translated /\ last'.args[2] # <<>>)
     => LET tx == last'.args[1]
            denom == FeeReductionDenominator(MainnetConfig)
            tipCap == tx.gasTipCap \div denom
            feeCap == tx.gasFeeCap \div denom
            sum == tipCap + (last'.args[2][1] \div denom)
        IN /\ Len(last'.ret) = 1
           /\ last'.ret[1].GasPrice = (IF sum < feeCap THEN sum ELSE feeCap)
           /\ last'.ret[1].GasFeeCap = feeCap
           /\ last'.ret[1].GasTipCap = tipCap]_vars

\* ----------------------------------------------------------------- C25

\* The transaction is one the translator skips: no recipient or another one
\* than the beacon address, the blob type, an empty payload or a payload that
\* is not the encoding of a MiveTx.
Skipped(tx) ==
  \/ tx.to # DefaultBeaconAddress
  \/ tx.type = BlobTxType
  \/ tx.data = <<>>
  \/ ~Decodable(tx.data)

\* C25: TransactionToMessage returns neither a message nor an error exactly
\* for the transactions it skips; for every other transaction it returns a
\* message, or the error of the sender recovery.
C25_SkipOrMessage ==
  [][StepIs("TransactionToMessage")
     => IF Skipped(last'.args[1])
        THEN last'.ret = <<>> /\ last'.err = "nil"
        ELSE last'.err \in {"nil", "ErrInvalidSig"}
             /\ (last'.err = "nil" => Len(last'.ret) = 1)]_vars

\* The part of C25 the code keeps: a transaction without recipient or to
\* another address, of the blob type or without payload is skipped, with no
\* effect on the chain.
C25_FilterSkips ==
  [][StepIs("TransactionToMessage")
     => LET tx == last'.args[1]
        IN (tx.to # DefaultBeaconAddress \/ tx.type = BlobTxType \/ tx.data = <<>>)
             => (last'.ret = <<>> /\ last'.err = "nil" /\ BC' = BC)]_vars

\* ----------------------------------------------------------------- C26

\* C26: for a transaction that passes the filter and decodes, the sender is
\* recovered from the upstream transaction: the call fails with the error of
\* the recovery when the signature of that transaction is bad, and succeeds
\* when it is good.
C26_SenderRecovery ==
  [][Translated
     => (last'.err = (IF last'.args[1].signed THEN "nil" ELSE "ErrInvalidSig")
         /\ running')]_vars

\* ---------------------------------------------------------- block gas limit

\* Gas is counted in units of GasUnit, and the machine word of the gas limit
\* (64 bits in the code) has GasWordBits bits.
GasUnit == 100000
GasWordBits == 16

\* math.MaxUint64 at the width of the model.
MaxUint64 == 2 ^ GasWordBits - 1

\* params.DefaultBlockGasLimitMultiplier and params.DefaultMinBlockGasLimit.
DefaultBlockGasLimitMultiplier == 100
DefaultMinBlockGasLimit == 30000000

\* config.BlockGasLimitMultiplier() and config.MinBlockGasLimit(), in units.
BlockGasLimitMultiplier(config) == DefaultBlockGasLimitMultiplier
MinBlockGasLimit(config) == DefaultMinBlockGasLimit \div GasUnit

\* The gas limits of upstream headers: from none to past the largest whose
\* multiple fits the word.
GasLimits == 0 .. (MaxUint64 \div DefaultBlockGasLimitMultiplier) + DefaultBlockGasLimitMultiplier

\* A multiplication that wraps without telling.
SafeMul_Wrapping(x, y) == [v |-> (x * y) % (MaxUint64 + 1), overflow |-> FALSE]

\* math.SafeMul: the low word of the product and whether the high word is set.
SafeMul(x, y) ==
  [v |-> (x * y) % (MaxUint64 + 1), overflow |-> (x * y) \div (MaxUint64 + 1) # 0]

\* blockGasLimit.
blockGasLimit(gasLimit, config) ==
  LET m == SafeMul(gasLimit, BlockGasLimitMultiplier(config))
      scaled == IF m.overflow THEN MaxUint64 ELSE m.v
  IN IF scaled < MinBlockGasLimit(config) THEN MinBlockGasLimit(config) ELSE scaled

\* NewEVMBlockContext sets the gas limit of the block context from the gas
\* limit of the upstream header. args: the upstream limit; ret: the limit of
\* the context.
NewEVMBlockContextStep(gasLimit) ==
  /\ running
  /\ last' = [op |-> "blockGasLimit", chain |-> <<>>, args |-> <<gasLimit>>,
              err |-> "nil", ret |-> <<blockGasLimit(gasLimit, MainnetConfig)>>,
              head |-> currentHeader]
  /\ SetBC(BC)
  /\ UNCHANGED pending

NextGasLimit == \E gasLimit \in GasLimits : NewEVMBlockContextStep(gasLimit)

SpecGasLimit == Init /\ [][NextGasLimit]_vars

\* ----------------------------------------------------------------- C27

\* The scaling of an upstream gas limit: the product when it fits the word,
\* else the largest word, and never less than the minimum.
Scaled(limit) ==
  LET product == limit * DefaultBlockGasLimitMultiplier
      sat == IF product > MaxUint64 THEN MaxUint64 ELSE product
  IN IF sat < DefaultMinBlockGasLimit \div GasUnit
     THEN DefaultMinBlockGasLimit \div GasUnit ELSE sat

\* blockGasLimit computes the scaling, its result is at least the minimum,
\* and of two calls the one with the larger limit has the larger result.
GasLimitScales ==
  StepIs("blockGasLimit")
    => /\ last'.ret[1] = Scaled(last'.args[1])
       /\ last'.ret[1] >= DefaultMinBlockGasLimit \div GasUnit
       /\ (last.op = "blockGasLimit" /\ last.args[1] <= last'.args[1])
            => last.ret[1] <= last'.ret[1]

\* C27 as stated: blockGasLimit scales, saturates and clamps, and the upstream
\* limit 30,000,000 becomes 3,000,000,000,000 (30,000,000 times 100,000 gas).
C27_Claimed ==
  [][/\ GasLimitScales
     /\ (StepIs("blockGasLimit") /\ last'.args[1] * GasUnit = 30000000)
          => last'.ret[1] = 30000000 \div (GasUnit \div 100000)]_vars

\* C27: blockGasLimit(limit) is limit * multiplier when the product fits the
\* word, the largest word when it does not, and the configured minimum when
\* that is below the minimum; the result is at least the minimum and does not
\* decrease with the limit. With multiplier 100 and minimum 30,000,000 the
\* upstream limit 30,000,000 becomes 3,000,000,000 (3,000,000 times 1,000 gas).
C27_BlockGasLimit ==
  [][/\ GasLimitScales
     /\ (StepIs("blockGasLimit") /\ last'.args[1] * GasUnit = 30000000)
          => last'.ret[1] = 3000000 \div (GasUnit \div 1000)]_vars

\* A limit whose product does not fit the word was scaled to the largest word.
C27_Witness ==
  /\ last.op = "blockGasLimit"
  /\ last.args[1] * DefaultBlockGasLimitMultiplier > MaxUint64
  /\ last.ret[1] = MaxUint64

\* ----------------------------------------------------------------- C28

\* The four lookups of the header chain answer for header h what the store
\* alone answers.
StoreAnswers(h) ==
  /\ HasHeader(BC, h, Number(h)) = DbHasHeader(BC, h, Number(h))
  /\ GetHeader(BC, h, Number(h)).header = (IF h \in dbHeaders THEN h ELSE NoHeader)
  /\ GetHeaderByHash(BC, h).header = (IF h \in dbHeaders THEN h ELSE NoHeader)
  /\ GetBlockNumber(BC, h).found = (h \in dbHeaders)

\* C28: the header cache and the number cache are a pure optimization: after
\* any sequence of operations, an aborted WriteHeaders included, HasHeader,
\* GetHeader, GetHeaderByHash and GetBlockNumber answer as the store alone.
C28_CachesPure == running => \A h \in Headers : StoreAnswers(h)

\* The part of C28 the code keeps: as long as no insertion was interrupted the
\* lookups answer as the store alone.
C28_UninterruptedCaches == (running /\ ~procInterrupt) => \A h \in Headers : StoreAnswers(h)

\* ----------------------------------------------------------------- C29

\* C29: a failure of a batched store write inside a chain-mutating operation
\* ends the process; no operation returns it to its caller as an error and
\* goes on running.
C29_WriteFailureFatal ==
  [][(vars' # vars /\ last'.err = "write failed") => ~running']_vars

\* ------------------------------------------------- Genesis.Commit, write by write

\* The writes of Genesis.Commit after the flush of the state, in their order.
\* Each goes to the database by itself; Commit opens no batch.
CommitOrder ==
  <<"WriteHeader", "WriteCanonicalHash", "WriteHeadBlockHash",
    "WriteHeadFastBlockHash", "WriteHeadHeaderHash", "WriteChainConfig">>

\* One write of Genesis.Commit.
CommitWrite(s, block, config, w) ==
  CASE w = "WriteHeader" -> [s EXCEPT !.hdr = @ \cup {block}]
    [] w = "WriteCanonicalHash" -> [s EXCEPT !.canon[Number(block)] = block]
    [] w = "WriteHeadBlockHash" -> [s EXCEPT !.headBlock = block]
    [] w = "WriteHeadFastBlockHash" -> [s EXCEPT !.headFast = block]
    [] w = "WriteHeadHeaderHash" -> [s EXCEPT !.headHdr = block]
    [] w = "WriteChainConfig" -> [s EXCEPT !.cfg[block] = config]

\* SetupGenesisBlockWithOverride calls Genesis.Commit, and Commit passes its
\* checks: no canonical hash at the genesis number, or the stored genesis
\* without its state.
CommitReached(s, g, upstream) ==
  LET stored == ReadCanonicalHash(s, g.num)
  IN /\ g.valid
     /\ g.config # NoConfig
     /\ \/ stored = EmptyHash
        \/ stored = upstream /\ DbHasHeader(s, stored, g.num) /\ StateMissing(s, stored)

\* Genesis.Commit is between two of its writes.
Committing == last.op \in {"Commit.flush", "Commit.write"}

\* Genesis.Commit up to the end of Alloc.flush. args: the genesis number, the
\* upstream block, the configuration and the number of writes done.
CommitFlushStep(g, upstream) ==
  /\ ~running
  /\ ~Committing
  /\ Number(upstream) = g.num
  /\ CommitReached(BC, g, upstream)
  /\ SetBC([BC EXCEPT !.state = @ \cup {upstream}])
  /\ last' = [op |-> "Commit.flush", chain |-> <<>>,
              args |-> <<g.num, upstream, g.config, 0>>, err |-> "nil",
              ret |-> <<>>, head |-> EmptyHash]
  /\ UNCHANGED pending

\* The next write of Genesis.Commit.
CommitWriteStep ==
  /\ Committing
  /\ SetBC(CommitWrite(BC, last.args[2], last.args[3], CommitOrder[last.args[4] + 1]))
  /\ last' = [last EXCEPT !.op = IF last.args[4] + 1 = Len(CommitOrder)
                                  THEN "Commit" ELSE "Commit.write",
                          !.args[4] = @ + 1]
  /\ UNCHANGED pending

\* The process dies inside Genesis.Commit; the store keeps what was written
\* (last keeps the arguments of the interrupted Commit).
CommitCrash ==
  /\ Committing
  /\ SetBC(BC)
  /\ last' = [last EXCEPT !.op = "crash"]
  /\ UNCHANGED pending

\* Bootstraps on a store that starts empty, the commits of the genesis write
\* by write, with crashes between the writes.
NextCommit ==
  \/ \E g \in GenesisArgs, upstream \in Headers : CommitFlushStep(g, upstream)
  \/ CommitWriteStep
  \/ CommitCrash
  \/ \E g \in GenesisArgs, upstream \in Headers :
       /\ ~Committing
       /\ ~CommitReached(BC, g, upstream)
       /\ SetupGenesisStep(g, upstream, TRUE, NoCompatError)

SpecCommit == (IsBC(EmptyChain) /\ pending = NoPending /\ last = NoCall) /\ [][NextCommit]_vars

\* ----------------------------------------------------------------- C30

\* C30: Genesis.Commit makes the canonical hash at the genesis number, the
\* three head markers and the chain configuration durable in one atomic step:
\* outside of a running Commit, a crash inside it included, no store holds a
\* canonical hash while a head marker or the configuration of that block is
\* missing.
C30_CommitAtomic ==
  ~Committing
    => \A n \in Numbers :
         dbCanon[n] # EmptyHash
           => /\ dbHeadBlock # EmptyHash
              /\ dbHeadFast # EmptyHash
              /\ dbHeadHeader # EmptyHash
              /\ dbConfig[dbCanon[n]] # NoConfig

\* ----------------------------------------------------------------- C31

\* The finalized and the safe pointer, when set, reference stored headers.
FinalSafePresent ==
  /\ currentFinalBlock # NoHeader => currentFinalBlock \in dbHeaders
  /\ currentSafeBlock # NoHeader => currentSafeBlock \in dbHeaders

\* C31: in every state of a constructed block chain the current and the snap
\* head pointer reference headers present in the store (never nil), and the
\* finalized and safe pointers, when set, reference headers present in the
\* store.
C31_PointersPresent ==
  running
    => /\ currentBlock # NoHeader /\ currentBlock \in dbHeaders
       /\ currentSnapBlock # NoHeader /\ currentSnapBlock \in dbHeaders
       /\ FinalSafePresent

\* The part of C31 about the finalized and safe pointers, by itself.
C31_FinalSafePresent == running => FinalSafePresent

\* ----------------------------------------------------------------- C32

\* rlp.EncodeToBytes of a header: the list of its fields, the parent hash first.
EncodeHeader(h) == <<ParentHash(h), h, Number(h)>>

\* types.HeaderParentHashFromRLP: the first element of the encoded list.
HeaderParentHashFromRLP(data) == data[1]

\* rawdb.ReadHeaderRLP: what WriteHeader stored under the key (number, hash).
ReadHeaderRLP(s, h, n) == IF DbHasHeader(s, h, n) THEN EncodeHeader(h) ELSE <<>>

\* The loop of rawdb.ReadHeaderRange over the live headers (no freezer).
RECURSIVE ReadHeaderRangeLoop(_, _, _, _)
ReadHeaderRangeLoop(s, i, hash, count) ==
  IF count = 0 THEN <<>>
  ELSE With(ReadHeaderRLP(s, hash, i),
            LAMBDA data :
              IF Len(data) = 0 THEN <<>>
              ELSE <<data>> \o ReadHeaderRangeLoop(s, PrevNumber(i),
                                                   HeaderParentHashFromRLP(data),
                                                   count - 1))

\* rawdb.ReadHeaderRange
ReadHeaderRange(s, number, count) ==
  IF count = 0 THEN <<>>
  ELSE ReadHeaderRangeLoop(s, number, ReadCanonicalHash(s, number),
                           IF number # WrappedNumber /\ count - 1 > number
                           THEN number + 1 ELSE count)

\* The cache loop of GetHeadersFrom: encoded headers by parent links while the
\* cache has them, and the number and count it stopped at.
RECURSIVE GetHeadersFromCache(_, _, _, _)
GetHeadersFromCache(s, hash, number, count) ==
  IF count = 0 \/ hash \notin s.hcache
  THEN [headers |-> <<>>, number |-> number, count |-> count]
  ELSE With(GetHeadersFromCache(s, ParentHash(hash), PrevNumber(number), count - 1),
            LAMBDA r : [r EXCEPT !.headers = <<EncodeHeader(hash)>> \o @])

\* HeaderChain.GetHeadersFrom after the request was cut to the current header.
GetHeadersFromServe(s, number, count) ==
  IF ReadCanonicalHash(s, number) = EmptyHash THEN <<>>
  ELSE With(GetHeadersFromCache(s, ReadCanonicalHash(s, number), number, count),
            LAMBDA c :
              IF c.count > 0 THEN c.headers \o ReadHeaderRange(s, c.number, c.count)
              ELSE c.headers)

\* HeaderChain.GetHeadersFrom
GetHeadersFrom(s, number, count) ==
  IF Number(s.cur) < number
  THEN IF count > number - Number(s.cur)
       THEN GetHeadersFromServe(s, Number(s.cur), count - (number - Number(s.cur)))
       ELSE <<>>
  ELSE GetHeadersFromServe(s, number, count)

\* The counts a caller asks for.
Counts == 0..(MaxNumber + 2)

\* A reader asks for count headers from number downwards.
GetHeadersFromStep(number, count) ==
  /\ running
  /\ UNCHANGED <<dbHeaders, dbCanon, dbHeadHeader, dbHeadBlock, dbHeadFast, dbFinalized,
                 dbConfig, dbState, dbRecoverable, dbPivot, currentHeader, headerCache,
                 numberCache, procInterrupt, currentBlock, currentSnapBlock,
                 currentFinalBlock, currentSafeBlock, genesisHeader, running, chainmu,
                 chainmuClosed, blockCache, pending>>
  /\ last' = [op |-> "GetHeadersFrom", chain |-> <<>>, args |-> <<number, count>>,
              err |-> "nil", ret |-> GetHeadersFrom(BC, number, count),
              head |-> currentHeader]

\* The header chain under insertion, restarts of the node (which empty the
\* caches) and requests for header ranges.
NextHeadersFrom ==
  \/ \E chain \in Batches : InsertHeaderChainStep(chain, FALSE, FALSE)
  \/ Exit
  \/ NewBlockChainStep([DefaultGenesisBlock EXCEPT !.nil = TRUE], GenesisHash, TRUE,
                       NoCompatError)
  \/ \E number \in Numbers, count \in Counts : GetHeadersFromStep(number, count)

SpecHeadersFrom == Init /\ [][NextHeadersFrom]_vars

\* The encoded canonical headers at n, n-1, ... that the store holds, at most c.
RECURSIVE CanonicalRange(_, _)
CanonicalRange(n, c) ==
  IF c = 0 \/ n \notin DOMAIN dbCanon \/ dbCanon[n] = EmptyHash
     \/ dbCanon[n] \notin dbHeaders
  THEN <<>>
  ELSE <<EncodeHeader(dbCanon[n])>> \o CanonicalRange(n - 1, c - 1)

\* What the claim lets GetHeadersFrom(number, count) return.
HeadersFromExpected(number, count) ==
  LET current == Number(currentHeader)
  IN IF number > current
     THEN IF count <= number - current THEN <<>>
          ELSE CanonicalRange(current, count - (number - current))
     ELSE CanonicalRange(number, count)

HeadersFromAsked == last.op = "GetHeadersFrom"

\* C32: GetHeadersFrom(number, count) returns at most count encoded headers,
\* the canonical headers at number, number-1, ... in that order; a request
\* above the current head by d returns nothing if count <= d and otherwise the
\* headers from the current head, at most count-d; the answer is the same with
\* an empty cache, with the cache the chain has, and with every stored header
\* cached.
C32_GetHeadersFrom ==
  HeadersFromAsked
    => /\ Len(last.ret) <= last.args[2]
       /\ last.ret = HeadersFromExpected(last.args[1], last.args[2])
       /\ last.ret = GetHeadersFrom([BC EXCEPT !.hcache = {}], last.args[1], last.args[2])
       /\ last.ret = GetHeadersFrom([BC EXCEPT !.hcache = dbHeaders],
                                    last.args[1], last.args[2])

\* The part of C32 about the cache, by itself: the answer has at most count
\* headers and does not depend on what the header cache holds.
C32_Transparent ==
  HeadersFromAsked
    => /\ Len(last.ret) <= last.args[2]
       /\ last.ret = GetHeadersFrom([BC EXCEPT !.hcache = {}], last.args[1], last.args[2])
       /\ last.ret = GetHeadersFrom([BC EXCEPT !.hcache = dbHeaders],
                                    last.args[1], last.args[2])

\* ----------------------------------------------------------------- C33

\* A rewind has been called and has not returned.
InRewind == last.op \in {"SetHead.call", "SetHeadWithTimestamp.call"}

\* A caller enters SetHead (byTime: SetHeadWithTimestamp) on an open lock; the
\* body runs up to the point where the call returns or waits.
RewindCallStep(head, byTime, loadOK, eventOK) ==
  /\ running
  /\ ~InRewind
  /\ ~chainmu
  /\ ~chainmuClosed
  /\ \E r \in {IF byTime THEN SetHeadWithTimestamp(BC, head, loadOK, eventOK)
               ELSE SetHead(BC, head, loadOK, eventOK)} :
       /\ SetBC(r.s)
       /\ last' = [op |-> IF byTime THEN "SetHeadWithTimestamp.call" ELSE "SetHead.call",
                   chain |-> <<>>, args |-> <<head, loadOK>>, err |-> r.err,
                   ret |-> <<>>, head |-> currentHeader]
  /\ UNCHANGED pending

\* The call returns to its caller (or ends with the process in a panic); a
\* call that waits for chainmu does not.
RewindReturnStep ==
  /\ InRewind
  /\ last.err # "blocked"
  /\ SetBC(BC)
  /\ last' = [last EXCEPT !.op = IF @ = "SetHead.call" THEN "SetHead"
                                 ELSE "SetHeadWithTimestamp"]
  /\ UNCHANGED pending

\* Header insertion between rewinds, and rewinds from call to return.
NextReturns ==
  \/ /\ ~InRewind
     /\ \E chain \in {c \in Batches : ParentHash(First(c)) = currentHeader} :
          InsertHeaderChainStep(chain, FALSE, FALSE)
  \/ \E head \in 0..MaxNumber, byTime \in BOOLEAN, loadOK \in BOOLEAN, eventOK \in BOOLEAN :
       RewindCallStep(head, byTime, loadOK, eventOK)
  \/ RewindReturnStep

\* A goroutine that can run does run: a call that is not waiting returns.
SpecReturns == Init /\ [][NextReturns]_vars /\ WF_vars(RewindReturnStep)

RewindReturned == last.op \in {"SetHead", "SetHeadWithTimestamp"}

\* C33: every SetHead / SetHeadWithTimestamp call on a chain whose lock is
\* open eventually returns, also when loadLastState falls back to Reset.
C33_RewindReturns == InRewind ~> RewindReturned

\* The part of C33 that holds: a rewind whose loadLastState finds the head
\* block returns.
C33_LoadedReturns == (InRewind /\ last.err # "blocked") ~> RewindReturned

\* ----------------------------------------------------------------- C34

\* The frame of a running GetAncestor call, kept in last.ret: hash, number,
\* ancestor, *maxNonCanonical and ancestorHash. last.args is the call as made.
AncestorReading ==
  last.op \in {"GetAncestor.loop", "GetAncestor.read2", "GetAncestor.read3"}

\* The call returns r.hash, r.number and leaves r.budget behind.
AncestorReturn(r) ==
  /\ SetBC(r.s)
  /\ last' = [last EXCEPT !.op = "GetAncestor", !.ret = <<r.hash, r.number, r.budget>>]

\* The loop body of GetAncestor below the canonical test: one step along the
\* parent link, charged to the budget.
AncestorWalk(f) ==
  IF f[4] = 0 THEN AncestorReturn(ZeroAncestor(BC, 0))
  ELSE \E g \in {GetHeader(BC, f[1], f[2])} :
         IF g.header = NoHeader THEN AncestorReturn(ZeroAncestor(g.s, f[4] - 1))
         ELSE /\ SetBC(g.s)
              /\ last' = [last EXCEPT
                            !.op = "GetAncestor.loop",
                            !.ret = <<ParentHash(g.header), f[2] - 1, f[3] - 1,
                                      f[4] - 1, EmptyHash>>]

\* A reader calls GetAncestor: the two early returns, or the loop is entered.
GetAncestorCallStep(hash, ancestor, budget) ==
  /\ running
  /\ ~AncestorReading
  /\ UNCHANGED pending
  /\ IF ancestor > Number(hash) \/ ancestor = 1
     THEN \E r \in {GetAncestor(BC, hash, Number(hash), ancestor, budget)} :
            /\ SetBC(r.s)
            /\ last' = [op |-> "GetAncestor", chain |-> <<>>,
                        args |-> <<hash, Number(hash), ancestor, budget>>,
                        err |-> "nil", ret |-> <<r.hash, r.number, r.budget>>,
                        head |-> currentHeader]
     ELSE /\ SetBC(BC)
          /\ last' = [op |-> "GetAncestor.loop", chain |-> <<>>,
                      args |-> <<hash, Number(hash), ancestor, budget>>,
                      err |-> "nil",
                      ret |-> <<hash, Number(hash), ancestor, budget, EmptyHash>>,
                      head |-> currentHeader]

\* The loop condition and the first read of the canonical hash at number.
GetAncestorLoopStep ==
  /\ last.op = "GetAncestor.loop"
  /\ UNCHANGED pending
  /\ IF last.ret[3] = 0
     THEN AncestorReturn([hash |-> last.ret[1], number |-> last.ret[2],
                          budget |-> last.ret[4], s |-> BC])
     ELSE IF ReadCanonicalHash(BC, last.ret[2]) = last.ret[1]
          THEN SetBC(BC) /\ last' = [last EXCEPT !.op = "GetAncestor.read2"]
          ELSE AncestorWalk(last.ret)

\* ancestorHash := the canonical hash at number - ancestor.
GetAncestorRead2Step ==
  /\ last.op = "GetAncestor.read2"
  /\ UNCHANGED pending
  /\ SetBC(BC)
  /\ last' = [last EXCEPT
                !.op = "GetAncestor.read3",
                !.ret[5] = ReadCanonicalHash(BC, last.ret[2] - last.ret[3])]

\* The second read of the canonical hash at number: unchanged, the call
\* returns ancestorHash; changed, the loop body goes on.
GetAncestorRead3Step ==
  /\ last.op = "GetAncestor.read3"
  /\ UNCHANGED pending
  /\ IF ReadCanonicalHash(BC, last.ret[2]) = last.ret[1]
     THEN AncestorReturn([hash |-> last.ret[5], number |-> last.ret[2] - last.ret[3],
                          budget |-> last.ret[4], s |-> BC])
     ELSE AncestorWalk(last.ret)

\* The batches of the writer: the upstream main chain up to TopHash and the
\* branch that forks off after the genesis block.
RaceBatches ==
  {PathTo(h, len) : h \in {x \in Headers \cup {TopHash} : Branch(x) <= 1},
                    len \in 1..MaxBatch}
    \cap Seq(Headers \cup {TopHash})

\* The inserting goroutine: InsertHeaderChain with its Reorg committed in one
\* batch, while a reader may be between two of its reads.
RaceInsertStep(chain) ==
  /\ running
  /\ \E r \in {InsertHeaderChain(BC, chain, FALSE, FALSE)} : SetBC(r.s)
  /\ UNCHANGED <<pending, last>>

NextRace ==
  \/ \E chain \in RaceBatches : RaceInsertStep(chain)
  \/ \E hash \in {Hash(0, MaxNumber), TopHash}, ancestor \in 1..MaxNumber,
        budget \in {0, MaxBudget} : GetAncestorCallStep(hash, ancestor, budget)
  \/ GetAncestorLoopStep
  \/ GetAncestorRead2Step
  \/ GetAncestorRead3Step

SpecRace == Init /\ [][NextRace]_vars

\* C34: GetAncestor run by a reader concurrently with atomically committed
\* Reorgs returns the zero result or the true ancestor, by parent links, of
\* the (hash, number) it was given; never a header of a competing branch.
C34_TrueAncestor ==
  last.op = "GetAncestor"
    => \/ last.ret[1] = EmptyHash /\ last.ret[2] = 0
       \/ /\ last.ret[1] = Anc(last.args[1], last.args[3])
          /\ last.ret[2] = last.args[2] - last.args[3]

\* The part of C34 that holds: the number returned with a hash is the number
\* asked for, and the hash is a stored header of that number.
C34_AncestorNumber ==
  last.op = "GetAncestor" /\ last.ret[1] # EmptyHash
    => /\ last.ret[2] = last.args[2] - last.args[3]
       /\ last.ret[1] \in dbHeaders
       /\ Number(last.ret[1]) = last.ret[2]

\* ----------------------------------------------------------------- C35

\* The genesis number, upstream block and configuration of the bootstrap that
\* crashed, or of the restart that succeeded.
LastGenesis ==
  IF last.op = "crash" THEN <<last.args[1], last.args[2], last.args[3]>>
  ELSE <<last.args[1], last.args[2], last.args[4]>>

\* A restart of the bootstrap with the same genesis and upstream block, after a
\* crash inside Genesis.Commit or after an earlier restart that succeeded: the
\* step does what the bootstrap does for the genesis that was being committed.
RestartOfCrashed ==
  /\ \/ last.op = "crash"
     \/ last.op = "SetupGenesisBlock" /\ last.err = "nil"
  /\ StepIs("SetupGenesisBlock")
  /\ <<last'.args[1], last'.args[2], last'.args[4]>> = LastGenesis
  /\ \E r \in {SetupGenesisBlockWithOverride(
                  BC, [DefaultGenesisBlock EXCEPT !.num = LastGenesis[1],
                                                  !.config = LastGenesis[3]],
                  LastGenesis[2], TRUE, NoCompatError)} :
       last'.err = r.err /\ last'.ret = <<r.hash>>

\* The genesis block is fully bootstrapped: header, canonical hash, the three
\* head markers and the chain configuration are in the store.
Bootstrapped(block) ==
  /\ block \in dbHeaders'
  /\ dbCanon'[Number(block)] = block
  /\ dbHeadBlock' # EmptyHash
  /\ dbHeadFast' # EmptyHash
  /\ dbHeadHeader' # EmptyHash
  /\ dbConfig'[block] # NoConfig

\* C35: after a crash between two store writes of Genesis.Commit, every later
\* restart with the same genesis and upstream block succeeds and ends with the
\* genesis header, its canonical hash, the three head markers and the chain
\* configuration in the store.
C35_CrashRecoverable ==
  [][RestartOfCrashed => last'.err = "nil" /\ Bootstrapped(last'.args[2])]_vars

\* The part of C35 that holds: a restart after a crash never loses what the
\* interrupted Commit had written.
C35_RestartKeeps ==
  [][RestartOfCrashed
       => /\ dbHeaders \subseteq dbHeaders'
          /\ \A n \in Numbers : dbCanon[n] # EmptyHash => dbCanon'[n] = dbCanon[n]]_vars

\* ----------------------------------------------------------------- C36

\* Reorg has run on the batch last'.chain and returned nil, called by itself or
\* by writeHeadersAndSetHead.
ReorgDone ==
  /\ \/ StepIs("Reorg")
     \/ StepIs("InsertHeaderChain") /\ last'.ret[1] = CanonStatTy
  /\ last'.err = "nil"
  /\ Len(last'.chain) > 0

\* Head-header marker, current header and canonical(last.number) name the
\* last header of the batch.
ReorgHead ==
  /\ dbHeadHeader' = Last(last'.chain)
  /\ currentHeader' = Last(last'.chain)
  /\ dbCanon'[Number(Last(last'.chain))] = Last(last'.chain)

\* No canonical entry above the current header.
NoneAboveHead ==
  \A n \in Numbers : n > Number(currentHeader') => dbCanon'[n] = EmptyHash

\* A batch on top of the current head leaves the entries up to the old head.
ExtensionKeeps ==
  ParentHash(First(last'.chain)) = currentHeader
    => \A n \in Numbers : n <= Number(currentHeader) => dbCanon'[n] = dbCanon[n]

\* C36: after every successful Reorg with a non-empty batch the head-header
\* marker, the current header and canonical(last.number) name the last header
\* of the batch and no canonical entry exists above the current header; a
\* batch whose first parent is the current head changes no canonical entry at
\* or below the old head.
C36_ReorgHead == [][ReorgDone => ReorgHead /\ NoneAboveHead /\ ExtensionKeeps]_vars

\* The part of C36 that holds also after a restart: the three names of the
\* head, and the entries an extension leaves alone.
C36_HeadNamed == [][ReorgDone => ReorgHead /\ ExtensionKeeps]_vars

\* ----------------------------------------------------------------- C37

\* The block chain under header insertion, pointer updates and rewinds by
\* number and by time.
NextFinality ==
  \/ NextSetHead
  \/ \E timestamp \in 0..MaxNumber, loadOK \in BOOLEAN, eventOK \in BOOLEAN :
       SetHeadWithTimestampStep(timestamp, loadOK, eventOK)

SpecFinality == Init /\ [][NextFinality]_vars

\* A rewind has returned nil.
Rewound ==
  /\ StepIs("SetHead") \/ StepIs("SetHeadWithTimestamp")
  /\ last'.err = "nil"

\* The pointer is at or below the head the rewind ended on, whichever head is
\* meant: the current header or the current block.
AtOrBelowHead(pointer) ==
  /\ pointer # NoHeader
  /\ Number(pointer) <= Number(currentHeader')
  /\ currentBlock' # NoHeader
  /\ Number(pointer) <= Number(currentBlock')

\* C37: a rewind leaves the finalized pointer and the safe pointer unchanged
\* whenever their block number is at or below the resulting head number.
C37_PointersKept ==
  [][Rewound
       => /\ AtOrBelowHead(currentFinalBlock) => currentFinalBlock' = currentFinalBlock
          /\ AtOrBelowHead(currentSafeBlock) => currentSafeBlock' = currentSafeBlock]_vars

\* The part of C37 that holds: the finalized pointer at or below the head is
\* left as it is by every rewind.
C37_FinalizedKept ==
  [][Rewound /\ AtOrBelowHead(currentFinalBlock)
       => currentFinalBlock' = currentFinalBlock]_vars

\* ----------------------------------------------------------------- C38

\* The fee values and denominators the fee computation is applied to: the
\* small ones, where every remainder occurs, and the ones around the default
\* denominator.
MaxFee == 6
MaxDenom == 3
FeeValues ==
  (0..MaxFee) \cup {DefaultFeeReductionDenominator - 1, DefaultFeeReductionDenominator,
                    2 * DefaultFeeReductionDenominator - 1}
Denominators == (1..MaxDenom) \cup {DefaultFeeReductionDenominator}

\* The fee lines of TransactionToMessage applied to a tip cap, a fee cap and a
\* base fee. args: the three and the denominator; ret: the gas price, the tip
\* cap and the fee cap of the message. One evaluation per behaviour: the
\* computation reads and leaves no state.
EffectiveGasPriceStep(gasTipCap, gasFeeCap, baseFee, denom) ==
  /\ last = NoCall
  /\ SetBC(BC)
  /\ UNCHANGED pending
  /\ last' = [op |-> "EffectiveGasPrice", chain |-> <<>>,
              args |-> <<gasTipCap, gasFeeCap, baseFee, denom>>, err |-> "nil",
              ret |-> <<EffectiveGasPrice(Reduce(gasTipCap, denom),
                                          Reduce(gasFeeCap, denom), baseFee, denom),
                        Reduce(gasTipCap, denom), Reduce(gasFeeCap, denom)>>,
              head |-> currentHeader]

NextFees ==
  \E gasTipCap \in FeeValues, gasFeeCap \in FeeValues, baseFee \in FeeValues,
     denom \in Denominators :
    EffectiveGasPriceStep(gasTipCap, gasFeeCap, baseFee, denom)

SpecFees == Init /\ [][NextFees]_vars

PriceComputed == last.op = "EffectiveGasPrice"

\* The upstream effective price, min(tip cap + base fee, fee cap).
UpstreamPrice ==
  IF last.args[1] + last.args[3] < last.args[2]
  THEN last.args[1] + last.args[3] ELSE last.args[2]

\* C38: with a base fee the gas price of the message never exceeds the reduced
\* fee cap nor the upstream effective price divided by the denominator and
\* rounded down, and a tip cap at or below the fee cap stays so in the message.
C38_PriceBounded ==
  PriceComputed
    => /\ last.ret[1] <= last.ret[3]
       /\ last.ret[1] <= UpstreamPrice \div last.args[4]
       /\ last.args[1] <= last.args[2] => last.ret[2] <= last.ret[3]

\* The rounding case: the two remainders add up to a whole unit, the price is
\* below the reduced upstream price and below the reduced fee cap.
C38_Witness ==
  /\ PriceComputed
  /\ last.args[1] <= last.args[2]
  /\ (last.args[1] % last.args[4]) + (last.args[3] % last.args[4]) >= last.args[4]
  /\ last.ret[1] < UpstreamPrice \div last.args[4]
  /\ last.ret[1] < last.ret[3]

\* ---------------------------------------------------------------------------
\* GetHashFn: the block-hash lookup handed to the EVM. The closure keeps the
\* header ref and a cache of ancestor hashes, cache[i] being the hash of the
\* ancestor i below ref. The closure lives in last: last.args[1] is ref,
\* last.chain the cache. The chain may grow or be rewound between two calls.
\* ---------------------------------------------------------------------------

\* The loop of the closure: reads the header lastKnownHash at lastKnownNumber,
\* appends its parent hash to the cache and stops at number n; a header that
\* is not found ends the walk with the empty hash. A number below zero stands
\* for the wrapped uint64, at which no header exists.
RECURSIVE GetHashWalk(_, _, _, _, _)
GetHashWalk(s, cache, lastKnownHash, lastKnownNumber, n) ==
  IF lastKnownNumber < 0
  THEN [hash |-> EmptyHash, cache |-> cache, hit |-> FALSE, s |-> s]
  ELSE With(GetHeader(s, lastKnownHash, lastKnownNumber), LAMBDA g :
    IF g.header = NoHeader
    THEN [hash |-> EmptyHash, cache |-> cache, hit |-> FALSE, s |-> g.s]
    ELSE IF n = Number(g.header) - 1
         THEN [hash |-> ParentHash(g.header),
               cache |-> Append(cache, ParentHash(g.header)), hit |-> FALSE, s |-> g.s]
         ELSE GetHashWalk(g.s, Append(cache, ParentHash(g.header)),
                          ParentHash(g.header), Number(g.header) - 1, n))

\* A closure that answers every cached number with the last cached hash.
GetHash_Last(s, ref, cache, n) ==
  IF Number(ref) <= n
  THEN [hash |-> EmptyHash, cache |-> cache, hit |-> FALSE, s |-> s]
  ELSE With(IF Len(cache) = 0 THEN <<ParentHash(ref)>> ELSE cache, LAMBDA c :
    IF Number(ref) - n - 1 < Len(c)
    THEN [hash |-> c[Len(c)], cache |-> c, hit |-> TRUE, s |-> s]
    ELSE GetHashWalk(s, c, c[Len(c)], Number(ref) - Len(c), n))

\* One call of the closure returned by GetHashFn(ref, chain) with the cache it
\* has built so far. hit: the answer was taken from the cache.
GetHash(s, ref, cache, n) ==
  IF Number(ref) <= n
  THEN [hash |-> EmptyHash, cache |-> cache, hit |-> FALSE, s |-> s]
  ELSE With(IF Len(cache) = 0 THEN <<ParentHash(ref)>> ELSE cache, LAMBDA c :
    IF Number(ref) - n - 1 < Len(c)
    THEN [hash |-> c[Number(ref) - n], cache |-> c, hit |-> TRUE, s |-> s]
    ELSE GetHashWalk(s, c, c[Len(c)], Number(ref) - Len(c), n))

\* The headers a closure is created for: the main-chain header above
\* MaxNumber and the tip of the first branch.
HashRefs == {TopHash, Hash(1, MaxNumber)}

\* GetHashFn(ref, chain): a new closure with an empty cache.
GetHashFnStep(ref) ==
  /\ running
  /\ last = NoCall
  /\ last' = [op |-> "GetHashFn", chain |-> <<>>, args |-> <<ref>>, err |-> "nil",
              ret |-> <<>>, head |-> currentHeader]
  /\ SetBC(BC)
  /\ UNCHANGED pending

\* A call fn(n) of the closure held in last. ret: the hash returned, the hash
\* a closure created at this moment returns for n, and whether the answer came
\* from the cache.
GetHashStep(n) ==
  /\ running
  /\ last.op \in {"GetHashFn", "GetHash"}
  /\ \E r \in {GetHash(BC, last.args[1], last.chain, n)} :
       /\ SetBC(r.s)
       /\ last' = [op |-> "GetHash", chain |-> r.cache, args |-> <<last.args[1], n>>,
                   err |-> "nil",
                   ret |-> <<r.hash, GetHash(BC, last.args[1], <<>>, n).hash, r.hit>>,
                   head |-> currentHeader]
  /\ UNCHANGED pending

NextHashFn ==
  \/ \E chain \in {c \in RaceBatches : Len(c) = 1} : RaceInsertStep(chain)
  \/ \E head \in Numbers :
       /\ running
       /\ ~chainmu
       /\ \E r \in {SetHead(BC, head, TRUE, TRUE)} : SetBC(r.s)
       /\ UNCHANGED <<pending, last>>
  \/ \E ref \in HashRefs : GetHashFnStep(ref)
  \/ \E n \in 0..(MaxNumber + 1) : GetHashStep(n)

SpecHashFn == Init /\ [][NextHashFn]_vars

HashCalled == last.op = "GetHash"

\* C39 as stated: every call of the closure returns what a closure created at
\* that moment returns for the same n.
C39_Transparent ==
  HashCalled => last.ret[1] = last.ret[2]

\* C39: a call fn(n) returns the empty hash when n is not below ref's number;
\* a hash it returns otherwise is the hash of ref's ancestor at number n; and
\* whenever a closure created at that moment finds a hash, the call returns
\* that same hash. The two differ only in that the cached closure still
\* answers after headers it walked have been removed from the chain.
C39_CacheSound ==
  HashCalled =>
    /\ (Number(last.args[1]) <= last.args[2] => last.ret[1] = EmptyHash)
    /\ (last.ret[1] # EmptyHash => last.ret[1] = AncAt(last.args[1], last.args[2]))
    /\ (last.ret[2] # EmptyHash => last.ret[1] = last.ret[2])

\* A call two or more numbers below ref answered from the cache, with the
\* answer of a fresh closure.
C39_Witness ==
  /\ HashCalled
  /\ last.ret[3]
  /\ Number(last.args[1]) - last.args[2] >= 2
  /\ last.ret[1] # EmptyHash
  /\ last.ret[1] = last.ret[2]

====
